---- MODULE Spec2Model ----
(***************************************************************************)
(* Model of src/rpc/rawtransaction.cpp: the signature combination engine   *)
(* (signrawtransaction, signrawcertificate) and the inclusion proof        *)
(* builder and verifier (gettxoutproof, verifytxoutproof).                 *)
(*                                                                         *)
(* Scripts are abstracted by the keys they involve: a locking script       *)
(* (scriptPubKey) is the set of keys whose signatures it requires, an      *)
(* unlocking script (scriptSig) is the set of keys whose signatures it     *)
(* carries.  The empty set is the empty script.                            *)
(***************************************************************************)
EXTENDS Integers, Sequences, FiniteSets, TLC

\* ------------------------------------------------------------------ bounds
MaxIn == 2          \* largest number of inputs of an entity
MaxVariants == 2    \* largest number of variants in one request (base included)

\* ------------------------------------------------------------ value spaces
Keys == {1, 2}
TxIds == {1, 2, 3}
EmptyScript == {}

\* The locking script every outpoint was created with.
OutpointScript(hash, n) ==
    CASE hash = 1 /\ n = 0 -> {1}
      [] hash = 1 /\ n = 1 -> {1, 2}
      [] hash = 2 /\ n = 0 -> {1, 2}
      [] OTHER             -> {1}

\* The outpoints an input of a request may reference.
PrevOuts == {<<1, 0>>, <<1, 1>>, <<2, 0>>, <<2, 1>>, <<3, 0>>}

VARIABLES
    pcoinsTip,      \* persisted coin set: txid -> CCoins
    mempool,        \* mempool: txid -> outputs (locking scripts) of the pending tx
    pc,             \* position of the RPC handler
    txVariants,     \* decoded variants (signrawcertificate: the one certificate)
    mergedTx,       \* working entity (mergedTx / mergedCert)
    view,           \* operation-local CCoinsViewCache: txid -> CCoins
    tempKeystore,   \* keys given in the call
    nHashType,      \* sighash type
    i,              \* loop index of the per-input loop
    vErrors,        \* per-input error records
    result,         \* what the handler returned or threw
    rpc,            \* the RPC call being served
    calls,          \* history: how often signer, combiner and verifier were invoked,
                    \* and the invocations of the combiner in order
    visited,        \* history: input indexes the per-input loop processed, in order
    errorInputs,    \* history: input index of every record of vErrors, in order
    mapBlockIndex,  \* block index: block hash -> [nHeight]
    chainActive,    \* active chain: the block hash at height h is chainActive[h + 1]
    blockFiles,     \* blocks on disk: block hash -> [header, vtx]
    txindex,        \* transaction index: txid -> hash of the confirming block
    proof,          \* the serialized proof the caller holds
    request,        \* history: the arguments of the call
    cs_main,        \* holder of the process-wide lock cs_main ("free": nobody)
    mempool_cs,     \* holder of the mempool lock mempool.cs
    relayed         \* ids of the entities announced to the peers, in order

vars == <<pcoinsTip, mempool, pc, txVariants, mergedTx, view, tempKeystore,
          nHashType, i, vErrors, result, rpc, calls, visited, errorInputs,
          mapBlockIndex, chainActive, blockFiles, txindex, proof, request,
          cs_main, mempool_cs, relayed>>

signVars == <<txVariants, mergedTx, view, tempKeystore, nHashType, i, vErrors,
              calls, visited, errorInputs>>
chainVars == <<mapBlockIndex, chainActive, blockFiles, txindex>>
proofVars == <<proof, request>>
lockVars == <<cs_main, mempool_cs>>

\* ------------------------------------------------------------------ coins
NullTxOut == [nValue |-> -1, scriptPubKey |-> EmptyScript]
TxOut(value, script) == [nValue |-> value, scriptPubKey |-> script]

MEMPOOL_HEIGHT == 2147483647

\* CCoins::IsAvailable
IsAvailable(coins, n) ==
    n >= 0 /\ n < Len(coins.vout) /\ coins.vout[n + 1].nValue # -1

\* CCoins::IsPruned
IsPruned(coins) == \A k \in DOMAIN coins.vout : coins.vout[k].nValue = -1

NoCoins == [vout |-> <<>>, nHeight |-> 0]

\* CCoinsViewMemPool::GetCoins over (viewChain, mempool): the mempool first.
HaveCoinsMemPool(tip, pool, txid) ==
    \/ txid \in DOMAIN pool
    \/ txid \in DOMAIN tip /\ ~IsPruned(tip[txid])

GetCoinsMemPool(tip, pool, txid) ==
    IF txid \in DOMAIN pool
    THEN [vout |-> [k \in DOMAIN pool[txid] |-> TxOut(1, pool[txid][k])],
          nHeight |-> MEMPOOL_HEIGHT]
    ELSE tip[txid]

\* CCoinsViewCache::AccessCoins with the db+mempool backend: a miss is
\* fetched from the backend into the cache.
FetchCoins_chainOnly(cache, tip, pool, txid) ==
    IF txid \in DOMAIN cache THEN cache
    ELSE IF txid \in DOMAIN tip /\ ~IsPruned(tip[txid])
         THEN cache @@ (txid :> tip[txid])
         ELSE cache

FetchCoins(cache, tip, pool, txid) ==
    IF txid \in DOMAIN cache THEN cache
    ELSE IF HaveCoinsMemPool(tip, pool, txid)
         THEN cache @@ (txid :> GetCoinsMemPool(tip, pool, txid))
         ELSE cache

RECURSIVE FetchInputs(_, _, _, _, _)
FetchInputs(cache, tip, pool, vin, k) ==
    IF k > Len(vin) THEN cache
    ELSE FetchInputs(FetchCoins(cache, tip, pool, vin[k].prevout.hash),
                     tip, pool, vin, k + 1)

\* CCoinsViewCache::AccessCoins with the dummy backend: only the cache answers.
HaveCached(cache, txid) == txid \in DOMAIN cache

\* ------------------------------------------- signer, combiner and verifier
\* SignSignature: the script the signer leaves in the input.  It holds the
\* signatures of the required keys the keystore has (none: the empty script).
SignSignature(keystore, prevPubKey, tx, nIn, hashType) ==
    prevPubKey \cap keystore

\* CombineSignatures: keeps the signatures of both scripts that are valid for
\* the locking script.
CombineSignatures(prevPubKey, tx, nIn, scriptSig1, scriptSig2) ==
    (scriptSig1 \cup scriptSig2) \cap prevPubKey

\* VerifyScript: the unlocking script satisfies the locking script.
VerifyScript(scriptSig, prevPubKey) == scriptSig = prevPubKey

\* ScriptErrorString(serror) of a failed verification.
ScriptErrorString == "Script evaluated without error but finished with a false/empty top stack element"

\* ---------------------------------------------------------------- entities
TxIn(hash, n, script) ==
    [prevout |-> [hash |-> hash, n |-> n], scriptSig |-> script, nSequence |-> 0]

\* An entity spending the outpoints pouts, as signed by a party holding keyset.
Entity(pouts, keyset) ==
    [vin  |-> [k \in 1..Len(pouts) |->
                 TxIn(pouts[k][1], pouts[k][2],
                      OutpointScript(pouts[k][1], pouts[k][2]) \cap keyset)],
     vout |-> <<TxOut(1, {1})>>]

PrevOutSeqs == UNION {[1..n -> PrevOuts] : n \in 0..MaxIn}

\* Key sets of the parties that may have signed a variant.
BaseSigners == {{}, {1}, {1, 2}}
VariantSigners == {{1}, {2}}

\* The variant lists a request may carry: the base and up to MaxVariants - 1
\* further variants of the same entity, each signed by one party.
VariantLists ==
    {<<>>} \cup
    UNION {{<<Entity(pouts, b)>> \o [k \in 1..m |-> Entity(pouts, ks[k])] :
                pouts \in PrevOutSeqs, b \in BaseSigners,
                ks \in [1..m -> VariantSigners]} :
           m \in 0..(MaxVariants - 1)}

\* EncodeHexTx / EncodeHexCert: the serialized entity, input by input.
SerializeScript(script) ==
    (IF 1 \in script THEN 1 ELSE 0) + (IF 2 \in script THEN 2 ELSE 0)

EncodeHex(tx) ==
    [vin  |-> [k \in DOMAIN tx.vin |->
                 <<tx.vin[k].prevout.hash, tx.vin[k].prevout.n,
                   SerializeScript(tx.vin[k].scriptSig), tx.vin[k].nSequence>>],
     vout |-> [k \in DOMAIN tx.vout |->
                 <<tx.vout[k].nValue, SerializeScript(tx.vout[k].scriptPubKey)>>]]

\* TxInErrorToJSON: the error record pushed to vErrors.
TxInErrorToJSON_emptyScript(txin, strMessage) ==
    [txid      |-> txin.prevout.hash,
     vout      |-> txin.prevout.n,
     scriptSig |-> SerializeScript(EmptyScript),
     sequence  |-> txin.nSequence,
     error     |-> strMessage]

TxInErrorToJSON(txin, strMessage) ==
    [txid      |-> txin.prevout.hash,
     vout      |-> txin.prevout.n,
     scriptSig |-> SerializeScript(txin.scriptSig),
     sequence  |-> txin.nSequence,
     error     |-> strMessage]

\* --------------------------------------------------------- request values
NullParam == "null"

\* keys parameter: the set of key strings given; 0 is a string that is not a
\* valid secret.  (The node runs without a wallet: the keystore is the
\* temporary one.)
KeyParams == {{}, {1}, {1, 2}, {0}}

PrevTx(txid, nOut, script) == [txid |-> txid, vout |-> nOut, scriptPubKey |-> script]

\* prevtxs parameter: the lists of caller-supplied previous outputs.
PrevTxsParams ==
    { <<>>,
      <<PrevTx(3, 0, {1})>>,
      <<PrevTx(1, 0, {1, 2})>>,
      <<PrevTx(1, 1, {1})>>,
      <<PrevTx(3, -1, {1})>>,
      <<PrevTx(3, 0, {1}), PrevTx(3, 0, {1, 2})>> }

\* sighashtype parameter
mapSigHashValues_noAnyoneSingle ==
    [s \in {"ALL", "ALL|ANYONECANPAY", "NONE", "NONE|ANYONECANPAY", "SINGLE"} |->
        CASE s = "ALL" -> 1
          [] s = "ALL|ANYONECANPAY" -> 129
          [] s = "NONE" -> 2
          [] s = "NONE|ANYONECANPAY" -> 130
          [] s = "SINGLE" -> 3]

mapSigHashValues ==
    [s \in {"ALL", "ALL|ANYONECANPAY", "NONE", "NONE|ANYONECANPAY",
            "SINGLE", "SINGLE|ANYONECANPAY"} |->
        CASE s = "ALL" -> 1
          [] s = "ALL|ANYONECANPAY" -> 129
          [] s = "NONE" -> 2
          [] s = "NONE|ANYONECANPAY" -> 130
          [] s = "SINGLE" -> 3
          [] s = "SINGLE|ANYONECANPAY" -> 131]

HashTypeParams ==
    {NullParam, "ALL", "ALL|ANYONECANPAY", "NONE", "NONE|ANYONECANPAY",
     "SINGLE", "SINGLE|ANYONECANPAY", "BOGUS", "all"}

\* fHashSingle: (nHashType & ~SIGHASH_ANYONECANPAY) == SIGHASH_SINGLE
fHashSingle_unmasked(hashType) == hashType = 3

fHashSingle(hashType) == hashType % 128 = 3

JSONRPCError(message) == [error |-> message]
IsError(r) == "error" \in DOMAIN r
IsResult(r) == "hex" \in DOMAIN r

\* ------------------------------------------------- previous txouts (1350-1397)
\* One caller-supplied previous output applied to the coin caches in scope:
\* view (the operation-local cache, backend viewDummy) and viewChain
\* (*pcoinsTip).  The handler modifies view.
AddPrevTxOut_viewChain(views, p) ==
    LET coins0 == IF p.txid \in DOMAIN views.viewChain THEN views.viewChain[p.txid] ELSE NoCoins
        n      == p.vout
        vout1  == IF n >= Len(coins0.vout)
                  THEN coins0.vout \o [k \in 1..(n + 1 - Len(coins0.vout)) |-> NullTxOut]
                  ELSE coins0.vout
        vout2  == [vout1 EXCEPT ![n + 1] = TxOut(0, p.scriptPubKey)]
    IN  IF n < 0
        THEN [err |-> "vout must be positive", views |-> views]
        ELSE IF IsAvailable(coins0, n) /\ coins0.vout[n + 1].scriptPubKey # p.scriptPubKey
        THEN [err |-> "Previous output scriptPubKey mismatch", views |-> views]
        ELSE [err |-> "",
              views |-> [views EXCEPT !.viewChain =
                            [t \in DOMAIN views.viewChain \cup {p.txid} |->
                                IF t = p.txid THEN [coins0 EXCEPT !.vout = vout2]
                                ELSE views.viewChain[t]]]]

AddPrevTxOut_unchecked(views, p) ==
    LET coins0 == IF p.txid \in DOMAIN views.view THEN views.view[p.txid] ELSE NoCoins
        n      == p.vout
        vout1  == IF n >= Len(coins0.vout)
                  THEN coins0.vout \o [k \in 1..(n + 1 - Len(coins0.vout)) |-> NullTxOut]
                  ELSE coins0.vout
        vout2  == [vout1 EXCEPT ![n + 1] = TxOut(0, p.scriptPubKey)]
    IN  IF n < 0
        THEN [err |-> "vout must be positive", views |-> views]
        ELSE [err |-> "",
              views |-> [views EXCEPT !.view =
                            [t \in DOMAIN views.view \cup {p.txid} |->
                                IF t = p.txid THEN [coins0 EXCEPT !.vout = vout2]
                                ELSE views.view[t]]]]

AddPrevTxOut(views, p) ==
    LET coins0 == IF p.txid \in DOMAIN views.view THEN views.view[p.txid] ELSE NoCoins
        n      == p.vout
        vout1  == IF n >= Len(coins0.vout)
                  THEN coins0.vout \o [k \in 1..(n + 1 - Len(coins0.vout)) |-> NullTxOut]
                  ELSE coins0.vout
        vout2  == [vout1 EXCEPT ![n + 1] = TxOut(0, p.scriptPubKey)]
    IN  IF n < 0
        THEN [err |-> "vout must be positive", views |-> views]
        ELSE IF IsAvailable(coins0, n) /\ coins0.vout[n + 1].scriptPubKey # p.scriptPubKey
        THEN [err |-> "Previous output scriptPubKey mismatch", views |-> views]
        ELSE [err |-> "",
              views |-> [views EXCEPT !.view =
                            [t \in DOMAIN views.view \cup {p.txid} |->
                                IF t = p.txid THEN [coins0 EXCEPT !.vout = vout2]
                                ELSE views.view[t]]]]

RECURSIVE AddPrevTxs(_, _, _)
AddPrevTxs(views, prevTxs, idx) ==
    IF idx > Len(prevTxs) THEN [err |-> "", views |-> views]
    ELSE LET r == AddPrevTxOut(views, prevTxs[idx])
         IN  IF r.err # "" THEN r ELSE AddPrevTxs(r.views, prevTxs, idx + 1)

NoProof == [nTransactions |-> 0]
NoRequest == [txids |-> <<>>, block |-> [hex |-> <<>>], proof |-> NoProof]

\* ------------------------------------------------------------------- Init
Init ==
    /\ pcoinsTip = (1 :> [vout |-> <<TxOut(1, {1}), NullTxOut>>, nHeight |-> 1])
    /\ mempool = (2 :> <<{1, 2}>>)
    /\ pc = "idle"
    /\ txVariants = <<>>
    /\ mergedTx = [vin |-> <<>>, vout |-> <<>>]
    /\ view = <<>>
    /\ tempKeystore = {}
    /\ nHashType = 1
    /\ i = 0
    /\ vErrors = <<>>
    /\ result = [pending |-> TRUE]
    /\ rpc = "none"
    /\ calls = [sign |-> 0, combine |-> 0, verify |-> 0, combined |-> <<>>]
    /\ visited = <<>>
    /\ errorInputs = <<>>
    /\ mapBlockIndex = <<>>
    /\ chainActive = <<>>
    /\ blockFiles = <<>>
    /\ txindex = <<>>
    /\ proof = NoProof
    /\ request = NoRequest
    /\ cs_main = "free"
    /\ mempool_cs = "free"
    /\ relayed = <<>>

Throw(message) ==
    /\ result' = JSONRPCError(message)
    /\ pc' = "done"

\* LOCK(cs_main) / LOCK2(cs_main, ...) is scoped: the handler holds the lock
\* until it returns or throws.
HoldUntilReturn == cs_main' = IF pc' = "done" THEN "free" ELSE cs_main

\* ------------------------------------------- helpers of the per-input loops
\* 1432 / 1191: coins != NULL && coins->IsAvailable(txin.prevout.n), answered
\* by the local cache alone (its backend is viewDummy again).
InputAvailable_spentToo(cache, prevout) ==
    /\ HaveCached(cache, prevout.hash)
    /\ prevout.n >= 0 /\ prevout.n < Len(cache[prevout.hash].vout)

InputAvailable(cache, prevout) ==
    HaveCached(cache, prevout.hash) /\ IsAvailable(cache[prevout.hash], prevout.n)

\* 1433 / 1192: the record of an input whose output is not there to spend
InputNotFound_silent(errors, txin) == errors

InputNotFound(errors, txin) ==
    Append(errors, TxInErrorToJSON(txin, "Input not found or already spent"))

\* 1429, 1434 / 1188, 1193: continue and i++ lead to the next input whether
\* the input was resolved or not.
NextIndex_break(idx, nInputs, fAvailable) ==
    IF fAvailable THEN idx + 1 ELSE nInputs

NextIndex(idx, nInputs, fAvailable) == idx + 1

\* 1447-1450 / 1200-1208: verify the input's final script; a failure is
\* recorded with the verifier's error text.
VerifyInput_unchecked(errors, txin, prevPubKey) == errors

VerifyInput(errors, txin, prevPubKey) ==
    IF VerifyScript(txin.scriptSig, prevPubKey) THEN errors
    ELSE Append(errors, TxInErrorToJSON(txin, ScriptErrorString))

\* 1444-1446: fold the script of input nIn of every variant into scriptSig.
\* acc holds the script so far and the invocations of the combiner made.
RECURSIVE MergeVariants_skipBase(_, _, _, _, _, _)
MergeVariants_skipBase(prevPubKey, tx, nIn, acc, variants, k) ==
    IF k > Len(variants) THEN acc
    ELSE IF k = 1 THEN MergeVariants_skipBase(prevPubKey, tx, nIn, acc, variants, k + 1)
    ELSE MergeVariants_skipBase(prevPubKey, tx, nIn,
             [scriptSig |-> CombineSignatures(prevPubKey, tx, nIn, acc.scriptSig,
                                              variants[k].vin[nIn + 1].scriptSig),
              combined  |-> Append(acc.combined,
                                   [nIn |-> nIn, scriptSig1 |-> acc.scriptSig,
                                    scriptSig2 |-> variants[k].vin[nIn + 1].scriptSig])],
             variants, k + 1)

RECURSIVE MergeVariants_reversed(_, _, _, _, _, _)
MergeVariants_reversed(prevPubKey, tx, nIn, acc, variants, k) ==
    IF k > Len(variants) THEN acc
    ELSE LET v == variants[Len(variants) + 1 - k]
         IN  MergeVariants_reversed(prevPubKey, tx, nIn,
                 [scriptSig |-> CombineSignatures(prevPubKey, tx, nIn, acc.scriptSig,
                                                  v.vin[nIn + 1].scriptSig),
                  combined  |-> Append(acc.combined,
                                       [nIn |-> nIn, scriptSig1 |-> acc.scriptSig,
                                        scriptSig2 |-> v.vin[nIn + 1].scriptSig])],
                 variants, k + 1)

RECURSIVE MergeVariants(_, _, _, _, _, _)
MergeVariants(prevPubKey, tx, nIn, acc, variants, k) ==
    IF k > Len(variants) THEN acc
    ELSE MergeVariants(prevPubKey, tx, nIn,
             [scriptSig |-> CombineSignatures(prevPubKey, tx, nIn, acc.scriptSig,
                                              variants[k].vin[nIn + 1].scriptSig),
              combined  |-> Append(acc.combined,
                                   [nIn |-> nIn, scriptSig1 |-> acc.scriptSig,
                                    scriptSig2 |-> variants[k].vin[nIn + 1].scriptSig])],
             variants, k + 1)

\* 1430, 1438-1445 / 1189, 1196-1198: txin is a reference to input nIn of the
\* working entity; what is assigned to txin.scriptSig lands there and nowhere
\* else.
SetScriptSig_everyInput(tx, nIn, script) ==
    [tx EXCEPT !.vin = [k \in DOMAIN tx.vin |-> [tx.vin[k] EXCEPT !.scriptSig = script]]]

SetScriptSig(tx, nIn, script) == [tx EXCEPT !.vin[nIn + 1].scriptSig = script]

\* 1452 / 1210: vErrors.empty()
fComplete_inverted(errors) == errors # <<>>

fComplete(errors) == errors = <<>>

\* 1454-1459 / 1212-1217: the result object; errors only when there are some.
SignResult_alwaysErrors(hex, complete, errors) ==
    [hex |-> hex, complete |-> complete, errors |-> errors]

SignResult(hex, complete, errors) ==
    IF errors # <<>>
    THEN [hex |-> hex, complete |-> complete, errors |-> errors]
    ELSE [hex |-> hex, complete |-> complete]

\* ------------------------------------------------ signrawtransaction
\* 1282-1312: take cs_main, decode the variants and clone the base into
\* mergedTx.
signrawtransaction_decode ==
    /\ pc = "idle"
    /\ cs_main = "free"
    /\ rpc' = "signrawtransaction"
    /\ \E variants \in VariantLists, fDecoded \in BOOLEAN :
        IF ~fDecoded
        THEN /\ Throw("TX decode failed")
             /\ UNCHANGED <<txVariants, mergedTx, lockVars>>
        ELSE IF variants = <<>>
        THEN /\ Throw("Missing transaction")
             /\ UNCHANGED <<txVariants, mergedTx, lockVars>>
        ELSE /\ txVariants' = variants
             /\ mergedTx' = variants[1]
             /\ cs_main' = "rpc"
             /\ pc' = "tx_lock"
             /\ UNCHANGED <<result, mempool_cs>>
    /\ UNCHANGED <<pcoinsTip, mempool, view, tempKeystore, nHashType, i, vErrors,
                   calls, visited, errorInputs>>
    /\ UNCHANGED <<chainVars, proofVars>>
    /\ UNCHANGED relayed

\* 1314: LOCK(mempool.cs), with cs_main held; the handler waits here while
\* another thread holds mempool.cs.
signrawtransaction_lock ==
    /\ pc = "tx_lock"
    /\ mempool_cs = "free"
    /\ mempool_cs' = "rpc"
    /\ pc' = "tx_fetch"
    /\ UNCHANGED <<pcoinsTip, mempool, signVars, result, rpc, cs_main>>
    /\ UNCHANGED <<chainVars, proofVars>>
    /\ UNCHANGED relayed

\* 1315-1326: fetch the coins of the inputs from the db+mempool view into the
\* local cache and release mempool.cs.
signrawtransaction_fetch ==
    /\ pc = "tx_fetch"
    /\ view' = FetchInputs(<<>>, pcoinsTip, mempool, mergedTx.vin, 1)
    /\ mempool_cs' = "free"
    /\ pc' = "tx_params"
    /\ UNCHANGED <<pcoinsTip, mempool, txVariants, mergedTx, tempKeystore, nHashType,
                   i, vErrors, result, rpc, calls, visited, errorInputs, cs_main>>
    /\ UNCHANGED <<chainVars, proofVars>>
    /\ UNCHANGED relayed

\* 1328-1426: the keys, the previous txouts and the sighash type of the call.
signrawtransaction_params ==
    /\ pc = "tx_params"
    /\ \E keys \in KeyParams, prevTxs \in PrevTxsParams, strHashType \in HashTypeParams :
        /\ request' = [sighashtype |-> strHashType, prevtxs |-> prevTxs, keys |-> keys]
        /\  LET r == AddPrevTxs([view |-> view, viewChain |-> pcoinsTip], prevTxs, 1)
            IN  IF 0 \in keys
                THEN /\ Throw("Invalid private key")
                     /\ UNCHANGED <<pcoinsTip, view, tempKeystore, nHashType>>
                ELSE IF r.err # ""
                THEN /\ Throw(r.err)
                     /\ view' = r.views.view
                     /\ pcoinsTip' = r.views.viewChain
                     /\ tempKeystore' = keys
                     /\ UNCHANGED nHashType
                ELSE IF strHashType # NullParam /\ strHashType \notin DOMAIN mapSigHashValues
                THEN /\ Throw("Invalid sighash param")
                     /\ view' = r.views.view
                     /\ pcoinsTip' = r.views.viewChain
                     /\ tempKeystore' = keys
                     /\ UNCHANGED nHashType
                ELSE /\ view' = r.views.view
                     /\ pcoinsTip' = r.views.viewChain
                     /\ tempKeystore' = keys
                     /\ nHashType' = IF strHashType = NullParam THEN 1
                                     ELSE mapSigHashValues[strHashType]
                     /\ pc' = "tx_loop"
                     /\ UNCHANGED result
    /\ UNCHANGED <<mempool, txVariants, mergedTx, i, vErrors, rpc, calls, visited,
                   errorInputs>>
    /\ UNCHANGED <<chainVars, proof>>
    /\ HoldUntilReturn
    /\ UNCHANGED mempool_cs
    /\ UNCHANGED relayed

\* 1445: txv.vin[i] is std::vector::operator[], which checks no bound. For a
\* variant with at most nIn inputs the read is outside the array: the process
\* ends with a memory fault, or the bytes found there are taken as the script.
StrayScripts == {EmptyScript, Keys}
InBounds == [crashed |-> FALSE, scriptSig |-> EmptyScript]

OutOfBoundsReads(variants, nIn) ==
    IF \A k \in DOMAIN variants : nIn < Len(variants[k].vin)
    THEN {InBounds}
    ELSE {[crashed |-> TRUE, scriptSig |-> EmptyScript]}
         \cup {[crashed |-> FALSE, scriptSig |-> s] : s \in StrayScripts}

\* the variants as the merge of input nIn reads them: what lies behind the
\* last input of a short variant holds the script stray
Memory(variants, nIn, stray) ==
    [k \in DOMAIN variants |->
        IF nIn < Len(variants[k].vin) THEN variants[k]
        ELSE [variants[k] EXCEPT !.vin =
                 variants[k].vin \o
                 [j \in 1..(nIn + 1 - Len(variants[k].vin)) |-> TxIn(0, 0, stray)]]]

\* 1429-1451: one iteration of the per-input loop.
signrawtransaction_input ==
    /\ pc = "tx_loop"
    /\ i < Len(mergedTx.vin)
    /\ LET txin   == mergedTx.vin[i + 1]
           fAvail == InputAvailable(view, txin.prevout)
       IN  \E read \in (IF fAvail THEN OutOfBoundsReads(txVariants, i) ELSE {InBounds}) :
           IF read.crashed
           THEN /\ pc' = "crashed"
                /\ UNCHANGED <<mergedTx, vErrors, calls, i, visited, errorInputs>>
           ELSE
           /\ IF ~fAvail
              THEN /\ vErrors' = InputNotFound(vErrors, txin)
                   /\ UNCHANGED <<mergedTx, calls>>
              ELSE LET prevPubKey == view[txin.prevout.hash].vout[txin.prevout.n + 1].scriptPubKey
                       fSign   == ~fHashSingle(nHashType) \/ i < Len(mergedTx.vout)
                       signed  == IF fSign
                                  THEN SignSignature(tempKeystore, prevPubKey, mergedTx, i, nHashType)
                                  ELSE EmptyScript
                       merged  == MergeVariants(prevPubKey, mergedTx, i,
                                      [scriptSig |-> signed, combined |-> calls.combined],
                                      Memory(txVariants, i, read.scriptSig), 1)
                       txin2   == [txin EXCEPT !.scriptSig = merged.scriptSig]
                   IN  /\ mergedTx' = SetScriptSig(mergedTx, i, merged.scriptSig)
                       /\ vErrors' = VerifyInput(vErrors, txin2, prevPubKey)
                       /\ calls' = [sign    |-> calls.sign + (IF fSign THEN 1 ELSE 0),
                                    combine |-> Len(merged.combined),
                                    verify  |-> calls.verify + 1,
                                    combined |-> merged.combined]
           /\ i' = NextIndex(i, Len(mergedTx.vin), fAvail)
           /\ visited' = Append(visited, i)
           /\ errorInputs' = IF Len(vErrors') > Len(vErrors) THEN Append(errorInputs, i)
                             ELSE errorInputs
           /\ UNCHANGED pc
    /\ UNCHANGED <<pcoinsTip, mempool, txVariants, view, tempKeystore,
                   nHashType, result, rpc>>
    /\ UNCHANGED <<chainVars, proofVars>>
    /\ HoldUntilReturn
    /\ UNCHANGED mempool_cs
    /\ UNCHANGED relayed

signrawtransaction_return_throws ==
    /\ pc = "tx_loop"
    /\ i >= Len(mergedTx.vin)
    /\ result' = IF vErrors # <<>> THEN JSONRPCError("Signing incomplete")
                 ELSE SignResult(EncodeHex(mergedTx), fComplete(vErrors), vErrors)
    /\ pc' = "done"
    /\ UNCHANGED <<pcoinsTip, mempool, txVariants, mergedTx, view, tempKeystore,
                   nHashType, i, vErrors, rpc, calls, visited, errorInputs>>
    /\ UNCHANGED <<chainVars, proofVars>>
    /\ HoldUntilReturn
    /\ UNCHANGED mempool_cs
    /\ UNCHANGED relayed

\* 1452-1461: the loop is over; build the result.
signrawtransaction_return ==
    /\ pc = "tx_loop"
    /\ i >= Len(mergedTx.vin)
    /\ result' = SignResult(EncodeHex(mergedTx), fComplete(vErrors), vErrors)
    /\ pc' = "done"
    /\ UNCHANGED <<pcoinsTip, mempool, txVariants, mergedTx, view, tempKeystore,
                   nHashType, i, vErrors, rpc, calls, visited, errorInputs>>
    /\ UNCHANGED <<chainVars, proofVars>>
    /\ HoldUntilReturn
    /\ UNCHANGED mempool_cs
    /\ UNCHANGED relayed

\* ------------------------------------------------ signrawcertificate
\* 1108-1143: take cs_main, decode the one certificate, clone it into
\* mergedCert (held in mergedTx) and take mempool.cs for the fetch.
signrawcertificate_decode ==
    /\ pc = "idle"
    /\ cs_main = "free"
    /\ rpc' = "signrawcertificate"
    /\ \E certs \in VariantLists, fDecoded \in BOOLEAN :
        IF certs = <<>>
        THEN /\ Throw("Missing input certificate")
             /\ UNCHANGED <<txVariants, mergedTx, lockVars>>
        ELSE IF ~fDecoded
        THEN /\ Throw("Cert decode failed")
             /\ UNCHANGED <<txVariants, mergedTx, lockVars>>
        ELSE IF Len(certs) > 1
        THEN /\ Throw("Found extra bytes after certificate")
             /\ UNCHANGED <<txVariants, mergedTx, lockVars>>
        ELSE /\ txVariants' = certs
             /\ mergedTx' = certs[1]
             /\ cs_main' = "rpc"
             /\ pc' = "cert_lock"
             /\ UNCHANGED <<result, mempool_cs>>
    /\ UNCHANGED <<pcoinsTip, mempool, view, tempKeystore, nHashType, i, vErrors,
                   calls, visited, errorInputs>>
    /\ UNCHANGED <<chainVars, proofVars>>
    /\ UNCHANGED relayed

\* 1143: LOCK(mempool.cs), with cs_main held
signrawcertificate_lock ==
    /\ pc = "cert_lock"
    /\ mempool_cs = "free"
    /\ mempool_cs' = "rpc"
    /\ pc' = "cert_fetch"
    /\ UNCHANGED <<pcoinsTip, mempool, signVars, result, rpc, cs_main>>
    /\ UNCHANGED <<chainVars, proofVars>>
    /\ UNCHANGED relayed

\* 1144-1155: fetch the coins of the inputs into the local cache and release
\* mempool.cs.
signrawcertificate_fetch ==
    /\ pc = "cert_fetch"
    /\ view' = FetchInputs(<<>>, pcoinsTip, mempool, mergedTx.vin, 1)
    /\ mempool_cs' = "free"
    /\ pc' = "cert_params"
    /\ UNCHANGED <<pcoinsTip, mempool, txVariants, mergedTx, tempKeystore, nHashType,
                   i, vErrors, result, rpc, calls, visited, errorInputs, cs_main>>
    /\ UNCHANGED <<chainVars, proofVars>>
    /\ UNCHANGED relayed

\* 1157-1185: the keys of the call; the sighash type is SIGHASH_ALL.
signrawcertificate_params ==
    /\ pc = "cert_params"
    /\ \E keys \in KeyParams :
        IF 0 \in keys
        THEN /\ Throw("Invalid private key")
             /\ UNCHANGED <<tempKeystore, nHashType>>
        ELSE /\ tempKeystore' = keys
             /\ nHashType' = 1
             /\ pc' = "cert_loop"
             /\ UNCHANGED result
    /\ UNCHANGED <<pcoinsTip, mempool, txVariants, mergedTx, view, i, vErrors,
                   rpc, calls, visited, errorInputs>>
    /\ UNCHANGED <<chainVars, proofVars>>
    /\ HoldUntilReturn
    /\ UNCHANGED mempool_cs
    /\ UNCHANGED relayed

\* 1188-1209: one iteration of the per-input loop.
signrawcertificate_input ==
    /\ pc = "cert_loop"
    /\ i < Len(mergedTx.vin)
    /\ LET txin   == mergedTx.vin[i + 1]
           fAvail == InputAvailable(view, txin.prevout)
       IN  /\ IF ~fAvail
              THEN /\ vErrors' = InputNotFound(vErrors, txin)
                   /\ UNCHANGED <<mergedTx, calls>>
              ELSE LET prevPubKey == view[txin.prevout.hash].vout[txin.prevout.n + 1].scriptPubKey
                       signed == SignSignature(tempKeystore, prevPubKey, mergedTx, i, nHashType)
                       txin2  == [txin EXCEPT !.scriptSig = signed]
                   IN  /\ mergedTx' = SetScriptSig(mergedTx, i, signed)
                       /\ vErrors' = VerifyInput(vErrors, txin2, prevPubKey)
                       /\ calls' = [sign    |-> calls.sign + 1,
                                    combine |-> calls.combine,
                                    verify  |-> calls.verify + 1,
                                    combined |-> calls.combined]
           /\ i' = NextIndex(i, Len(mergedTx.vin), fAvail)
    /\ visited' = Append(visited, i)
    /\ errorInputs' = IF Len(vErrors') > Len(vErrors) THEN Append(errorInputs, i)
                      ELSE errorInputs
    /\ UNCHANGED <<pcoinsTip, mempool, pc, txVariants, view, tempKeystore,
                   nHashType, result, rpc>>
    /\ UNCHANGED <<chainVars, proofVars>>
    /\ HoldUntilReturn
    /\ UNCHANGED mempool_cs
    /\ UNCHANGED relayed

\* 1210-1219: the loop is over; build the result.
signrawcertificate_return ==
    /\ pc = "cert_loop"
    /\ i >= Len(mergedTx.vin)
    /\ result' = SignResult(EncodeHex(mergedTx), fComplete(vErrors), vErrors)
    /\ pc' = "done"
    /\ UNCHANGED <<pcoinsTip, mempool, txVariants, mergedTx, view, tempKeystore,
                   nHashType, i, vErrors, rpc, calls, visited, errorInputs>>
    /\ UNCHANGED <<chainVars, proofVars>>
    /\ HoldUntilReturn
    /\ UNCHANGED mempool_cs
    /\ UNCHANGED relayed

\* ------------------------------------------------------------ specification
Next ==
    \/ signrawtransaction_decode
    \/ signrawtransaction_lock
    \/ signrawtransaction_fetch
    \/ signrawtransaction_params
    \/ signrawtransaction_input
    \/ signrawtransaction_return
    \/ signrawcertificate_decode
    \/ signrawcertificate_lock
    \/ signrawcertificate_fetch
    \/ signrawcertificate_params
    \/ signrawcertificate_input
    \/ signrawcertificate_return

Spec == Init /\ [][Next]_vars

\* ======================================================= inclusion proofs
MaxTxs == 4         \* largest number of transactions of the proved block

\* A hash is a sequence of numbers: the id of transaction t is <<t>>, the hash
\* of two hashes is their length-prefixed concatenation (injective).
Txid(t) == <<t>>
\* the transaction an id names (coins and mempool entries are kept by transaction)
TxOfId(hash) == hash[1]
NullHash == <<0>>
Hash(left, right) == <<Len(left)>> \o left \o right

\* uint256::GetHex and uint256S
GetHex(hash) == [hex |-> hash]
uint256S(str) == str.hex

RECURSIVE Pow2(_)
Pow2(e) == IF e = 0 THEN 1 ELSE 2 * Pow2(e - 1)

\* CPartialMerkleTree::CalcTreeWidth
CalcTreeWidth(nTransactions, height) ==
    (nTransactions + Pow2(height) - 1) \div Pow2(height)

\* the height of the tree: the first level of width 1
RECURSIVE TreeHeight(_, _)
TreeHeight(nTransactions, height) ==
    IF CalcTreeWidth(nTransactions, height) > 1
    THEN TreeHeight(nTransactions, height + 1) ELSE height

\* CPartialMerkleTree::CalcHash
RECURSIVE CalcHash(_, _, _)
CalcHash(height, pos, vTxid) ==
    IF height = 0 THEN vTxid[pos + 1]
    ELSE LET left  == CalcHash(height - 1, pos * 2, vTxid)
             right == IF pos * 2 + 1 < CalcTreeWidth(Len(vTxid), height - 1)
                      THEN CalcHash(height - 1, pos * 2 + 1, vTxid)
                      ELSE left
         IN  Hash(left, right)

\* CBlock::BuildMerkleTree: the Merkle root of a block's transactions
BuildMerkleTree(vTxid) == CalcHash(TreeHeight(Len(vTxid), 0), 0, vTxid)

\* CPartialMerkleTree::TraverseAndBuild: the bits and hashes of the subtree
RECURSIVE TraverseAndBuild(_, _, _, _)
TraverseAndBuild(height, pos, vTxid, vMatch) ==
    LET n     == Len(vTxid)
        first == pos * Pow2(height)
        last  == IF (pos + 1) * Pow2(height) < n THEN (pos + 1) * Pow2(height) ELSE n
        fParentOfMatch == \E q \in first..(last - 1) : vMatch[q + 1]
    IN  IF height = 0 \/ ~fParentOfMatch
        THEN [vBits |-> <<fParentOfMatch>>, vHash |-> <<CalcHash(height, pos, vTxid)>>]
        ELSE LET l == TraverseAndBuild(height - 1, pos * 2, vTxid, vMatch)
                 r == IF pos * 2 + 1 < CalcTreeWidth(n, height - 1)
                      THEN TraverseAndBuild(height - 1, pos * 2 + 1, vTxid, vMatch)
                      ELSE [vBits |-> <<>>, vHash |-> <<>>]
             IN  [vBits |-> <<fParentOfMatch>> \o l.vBits \o r.vBits,
                  vHash |-> l.vHash \o r.vHash]

\* CPartialMerkleTree(vTxid, vMatch)
PartialMerkleTree(vTxid, vMatch) ==
    LET t == TraverseAndBuild(TreeHeight(Len(vTxid), 0), 0, vTxid, vMatch)
    IN  [nTransactions |-> Len(vTxid), vBits |-> t.vBits, vHash |-> t.vHash]

\* CMerkleBlock(block, txids): header plus the partial tree matching txids
MerkleBlock(block, txids) ==
    LET vTxid == [k \in DOMAIN block.vtx |-> Txid(block.vtx[k])]
        pmt   == PartialMerkleTree(vTxid, [k \in DOMAIN vTxid |-> vTxid[k] \in txids])
    IN  [header |-> block.header, txn |-> pmt]

\* Serialization of the bit vector: 8 bits a byte, lowest bit first.
RECURSIVE ByteOf(_, _, _)
ByteOf(vBits, b, j) ==
    IF j > 7 THEN 0
    ELSE (IF 8 * b + j < Len(vBits) /\ vBits[8 * b + j + 1] THEN Pow2(j) ELSE 0)
         + ByteOf(vBits, b, j + 1)

BitsToBytes(vBits) == [b \in 1..((Len(vBits) + 7) \div 8) |-> ByteOf(vBits, b - 1, 0)]

BytesToBits(vBytes) ==
    [q \in 1..(8 * Len(vBytes)) |->
        (vBytes[((q - 1) \div 8) + 1] \div Pow2((q - 1) % 8)) % 2 = 1]

\* ssMB << mb and ssMB >> merkleBlock
SerializeMerkleBlock(mb) ==
    [header |-> mb.header, nTransactions |-> mb.txn.nTransactions,
     vHash |-> mb.txn.vHash, vBytes |-> BitsToBytes(mb.txn.vBits)]

DeserializeMerkleBlock(blob) ==
    [header |-> blob.header,
     txn |-> [nTransactions |-> blob.nTransactions, vBits |-> BytesToBits(blob.vBytes),
              vHash |-> blob.vHash]]

\* CPartialMerkleTree::TraverseAndExtract; st counts the bits and hashes used
RECURSIVE TraverseAndExtract(_, _, _, _)
TraverseAndExtract(height, pos, st, pmt) ==
    IF st.nBitsUsed >= Len(pmt.vBits)
    THEN [hash |-> NullHash, st |-> [st EXCEPT !.fBad = TRUE]]
    ELSE
    LET fParentOfMatch == pmt.vBits[st.nBitsUsed + 1]
        st1 == [st EXCEPT !.nBitsUsed = @ + 1]
    IN  IF height = 0 \/ ~fParentOfMatch
        THEN IF st1.nHashUsed >= Len(pmt.vHash)
             THEN [hash |-> NullHash, st |-> [st1 EXCEPT !.fBad = TRUE]]
             ELSE LET hash == pmt.vHash[st1.nHashUsed + 1]
                  IN  [hash |-> hash,
                       st |-> [st1 EXCEPT !.nHashUsed = @ + 1,
                                          !.vMatch = IF height = 0 /\ fParentOfMatch
                                                     THEN Append(@, hash) ELSE @]]
        ELSE LET l == TraverseAndExtract(height - 1, pos * 2, st1, pmt)
                 r == IF pos * 2 + 1 < CalcTreeWidth(pmt.nTransactions, height - 1)
                      THEN TraverseAndExtract(height - 1, pos * 2 + 1, l.st, pmt)
                      ELSE l
             IN  [hash |-> Hash(l.hash, r.hash), st |-> r.st]

\* CPartialMerkleTree::ExtractMatches: the recomputed root and the matched
\* ids in leaf order.  For a tree whose bits and hashes do not fit its
\* declared size (fBad) it returns the null hash.
ExtractMatches(pmt) ==
    IF \/ pmt.nTransactions = 0
       \/ Len(pmt.vHash) > pmt.nTransactions
       \/ Len(pmt.vBits) < Len(pmt.vHash)
    THEN [fBad |-> TRUE, root |-> NullHash, vMatch |-> <<>>]
    ELSE LET t == TraverseAndExtract(TreeHeight(pmt.nTransactions, 0), 0,
                      [nBitsUsed |-> 0, nHashUsed |-> 0, vMatch |-> <<>>, fBad |-> FALSE],
                      pmt)
         IN  IF \/ t.st.fBad
                \/ (t.st.nBitsUsed + 7) \div 8 # (Len(pmt.vBits) + 7) \div 8
                \/ t.st.nHashUsed # Len(pmt.vHash)
             THEN [fBad |-> TRUE, root |-> NullHash, vMatch |-> t.st.vMatch]
             ELSE [fBad |-> FALSE, root |-> t.hash, vMatch |-> t.st.vMatch]

\* ------------------------------------------------------------ chain state
\* CBlockHeader::GetHash
GetBlockHash(header) == <<header.id>> \o header.hashMerkleRoot

Block(id, vtx) ==
    [header |-> [id |-> id,
                 hashMerkleRoot |-> BuildMerkleTree([k \in DOMAIN vtx |-> Txid(vtx[k])])],
     vtx |-> vtx]

\* CChain::Height and CChain::Contains
ChainHeight(chain) == Len(chain) - 1

ChainContains(chain, index, hashBlock) ==
    /\ index[hashBlock].nHeight + 1 \in DOMAIN chain
    /\ chain[index[hashBlock].nHeight + 1] = hashBlock

\* The orders in which the proved block may hold its n transactions.
BlockOrders(n) == {[k \in 1..n |-> k], [k \in 1..n |-> n + 1 - k]}

GenesisBlock == Block(100, <<50>>)
StaleBlock == Block(102, <<9>>)

\* Chain of the proof calls: genesis, on it the active block (id 101) with
\* the transactions vtx, and a stale block of the same height holding
\* transaction 9.  Transaction 1 has unspent outputs, transaction 2 is found
\* through the transaction index only, transaction 8 is in the mempool.
ProofInit ==
    \E n \in 1..MaxTxs : \E vtx \in BlockOrders(n) :
        LET hG == GetBlockHash(GenesisBlock.header)
            hB == GetBlockHash(Block(101, vtx).header)
            hS == GetBlockHash(StaleBlock.header)
        IN  /\ blockFiles = (hG :> GenesisBlock) @@ (hB :> Block(101, vtx)) @@ (hS :> StaleBlock)
            /\ mapBlockIndex = (hG :> [nHeight |-> 0]) @@ (hB :> [nHeight |-> 1])
                                  @@ (hS :> [nHeight |-> 1])
            /\ chainActive = <<hG, hB>>
            /\ txindex = (IF n >= 2 THEN (Txid(2) :> hB) ELSE <<>>) @@ (Txid(9) :> hS)
            /\ pcoinsTip = (1 :> [vout |-> <<TxOut(1, {1})>>, nHeight |-> 1])
            /\ mempool = (8 :> <<{1}>>)
    /\ pc = "idle"
    /\ txVariants = <<>>
    /\ mergedTx = [vin |-> <<>>, vout |-> <<>>]
    /\ view = <<>>
    /\ tempKeystore = {}
    /\ nHashType = 1
    /\ i = 0
    /\ vErrors = <<>>
    /\ result = [pending |-> TRUE]
    /\ rpc = "none"
    /\ calls = [sign |-> 0, combine |-> 0, verify |-> 0, combined |-> <<>>]
    /\ visited = <<>>
    /\ errorInputs = <<>>
    /\ proof = NoProof
    /\ request = NoRequest
    /\ cs_main = "free"
    /\ mempool_cs = "free"
    /\ relayed = <<>>

\* ------------------------------------------------------ request values
RECURSIVE Ascending(_)
Ascending(S) ==
    IF S = {} THEN <<>>
    ELSE LET m == CHOOSE x \in S : \A y \in S : x[1] <= y[1]
         IN  <<m>> \o Ascending(S \ {m})

\* The ids a caller may ask for: those of the blocks on disk (genesis left
\* out) and of the mempool.
TargetIds ==
    UNION {{Txid(b.vtx[k]) : k \in DOMAIN b.vtx} :
              b \in {blockFiles[h] : h \in DOMAIN blockFiles} \ {GenesisBlock}}
    \cup {Txid(t) : t \in DOMAIN mempool}

\* txids parameter: every non-empty set of ids with every choice of the id
\* listed last, the empty array, and an array naming an id twice.
TxidParams ==
    UNION {{[k \in 1..Cardinality(S) |-> GetHex((Ascending(S \ {l}) \o <<l>>)[k])] :
               l \in S} : S \in SUBSET TargetIds}
    \cup {<<>>, <<GetHex(Txid(1)), GetHex(Txid(1))>>}

\* blockhash parameter: none, a block of the index, or an unknown hash
NoBlockParam == [hex |-> <<>>]
BlockParams == {NoBlockParam} \cup {GetHex(h) : h \in DOMAIN mapBlockIndex \cup {Txid(77)}}

\* ------------------------------------------------------------ gettxoutproof
\* 493-516: the block to prove from: the one named, else the one holding the
\* unspent outputs of oneTxid, else the one the transaction index gives.
\* 502-505: the unspent coins of the id give a height of the active chain
gettxoutproof_coins(oneTxid) ==
    /\ TxOfId(oneTxid) \in DOMAIN pcoinsTip
    /\ pcoinsTip[TxOfId(oneTxid)].nHeight > 0
    /\ pcoinsTip[TxOfId(oneTxid)].nHeight <= ChainHeight(chainActive)

gettxoutproof_block_indexOnly(blockParam, oneTxid) ==
    LET named  == uint256S(blockParam)
    IN  IF blockParam # NoBlockParam /\ named \notin DOMAIN mapBlockIndex
        THEN [err |-> "Block not found", hashBlock |-> NullHash]
        ELSE IF blockParam # NoBlockParam
        THEN [err |-> "", hashBlock |-> named]
        ELSE IF TxOfId(oneTxid) \in DOMAIN mempool \/ oneTxid \notin DOMAIN txindex
        THEN [err |-> "Transaction not yet in block", hashBlock |-> NullHash]
        ELSE IF txindex[oneTxid] \notin DOMAIN mapBlockIndex
        THEN [err |-> "Transaction index corrupt", hashBlock |-> NullHash]
        ELSE [err |-> "", hashBlock |-> txindex[oneTxid]]

gettxoutproof_block_namedIgnored(blockParam, oneTxid) ==
    LET fCoins == /\ TxOfId(oneTxid) \in DOMAIN pcoinsTip
                  /\ pcoinsTip[TxOfId(oneTxid)].nHeight > 0
                  /\ pcoinsTip[TxOfId(oneTxid)].nHeight <= ChainHeight(chainActive)
    IN  IF fCoins
        THEN [err |-> "", hashBlock |-> chainActive[pcoinsTip[TxOfId(oneTxid)].nHeight + 1]]
        ELSE IF TxOfId(oneTxid) \in DOMAIN mempool \/ oneTxid \notin DOMAIN txindex
        THEN [err |-> "Transaction not yet in block", hashBlock |-> NullHash]
        ELSE IF txindex[oneTxid] \notin DOMAIN mapBlockIndex
        THEN [err |-> "Transaction index corrupt", hashBlock |-> NullHash]
        ELSE [err |-> "", hashBlock |-> txindex[oneTxid]]

gettxoutproof_block(blockParam, oneTxid) ==
    LET named  == uint256S(blockParam)
        fCoins == /\ blockParam = NoBlockParam
                  /\ TxOfId(oneTxid) \in DOMAIN pcoinsTip
                  /\ pcoinsTip[TxOfId(oneTxid)].nHeight > 0
                  /\ pcoinsTip[TxOfId(oneTxid)].nHeight <= ChainHeight(chainActive)
    IN  IF blockParam # NoBlockParam /\ named \notin DOMAIN mapBlockIndex
        THEN [err |-> "Block not found", hashBlock |-> NullHash]
        ELSE IF blockParam # NoBlockParam
        THEN [err |-> "", hashBlock |-> named]
        ELSE IF fCoins
        THEN [err |-> "", hashBlock |-> chainActive[pcoinsTip[TxOfId(oneTxid)].nHeight + 1]]
        ELSE IF TxOfId(oneTxid) \in DOMAIN mempool \/ oneTxid \notin DOMAIN txindex
        THEN [err |-> "Transaction not yet in block", hashBlock |-> NullHash]
        ELSE IF txindex[oneTxid] \notin DOMAIN mapBlockIndex
        THEN [err |-> "Transaction index corrupt", hashBlock |-> NullHash]
        ELSE [err |-> "", hashBlock |-> txindex[oneTxid]]

\* 524-527: every target id was found in the block
AllFound_some(ntxFound, setTxids) == ntxFound > 0

AllFound(ntxFound, setTxids) == ntxFound = Cardinality(setTxids)

NotAllFound == "(Not all) transactions not found in specified block"

\* 477-533
gettxoutproof ==
    /\ pc = "idle"
    /\ rpc' = "gettxoutproof"
    /\ \E txids \in TxidParams, blockParam \in BlockParams :
        LET setTxids == {uint256S(txids[k]) : k \in DOMAIN txids}
            oneTxid  == IF txids = <<>> THEN NullHash ELSE uint256S(txids[Len(txids)])
            b        == gettxoutproof_block(blockParam, oneTxid)
            block    == blockFiles[b.hashBlock]
            ntxFound == Cardinality({k \in DOMAIN block.vtx : Txid(block.vtx[k]) \in setTxids})
        IN  /\ IF Cardinality(setTxids) # Len(txids)
               THEN Throw("Invalid parameter, duplicated txid") /\ UNCHANGED proof
               ELSE IF b.err # ""
               THEN Throw(b.err) /\ UNCHANGED proof
               ELSE IF b.hashBlock \notin DOMAIN blockFiles
               THEN Throw("Can't read block from disk") /\ UNCHANGED proof
               ELSE IF ~AllFound(ntxFound, setTxids)
               THEN Throw(NotAllFound) /\ UNCHANGED proof
               ELSE /\ proof' = SerializeMerkleBlock(MerkleBlock(block, setTxids))
                    /\ result' = [proof |-> proof']
                    /\ pc' = "proof"
            /\ request' = [txids |-> txids, block |-> blockParam, proof |-> proof']
    /\ UNCHANGED <<pcoinsTip, mempool, signVars, chainVars, lockVars>>
    /\ UNCHANGED relayed

\* --------------------------------------------------------- the proof in transit
BadHash == <<99>>
UnknownBlockId == 103

\* The caller's copy of the proof is altered before it is verified: one
\* retained hash or the declared root is replaced, the header is exchanged
\* for that of another block or of a block nobody knows, the last retained
\* hash is lost, or a hash is added.
Corrupt ==
    /\ pc = "proof"
    /\ \/ \E k \in DOMAIN proof.vHash :
            proof' = [proof EXCEPT !.vHash[k] = BadHash]
       \/ proof' = [proof EXCEPT !.header.hashMerkleRoot = BadHash]
       \/ \E h \in DOMAIN blockFiles :
            /\ blockFiles[h].header # proof.header
            /\ proof' = [proof EXCEPT !.header = blockFiles[h].header]
       \/ /\ proof.vHash # <<>>
          /\ proof' = [proof EXCEPT !.vHash = SubSeq(@, 1, Len(@) - 1)]
       \/ proof' = [proof EXCEPT !.header.id = UnknownBlockId]
       \/ proof' = [proof EXCEPT !.vHash = Append(@, BadHash)]
    /\ pc' = "corrupted"
    /\ UNCHANGED <<pcoinsTip, mempool, signVars, chainVars, result, rpc, request, lockVars>>
    /\ UNCHANGED relayed

\* --------------------------------------------------------- verifytxoutproof
\* 564-565: the matched ids as hex strings, in the order extracted
MatchesToJSON_first(vMatch) ==
    [k \in DOMAIN vMatch \cap {1} |-> GetHex(vMatch[k])]

MatchesToJSON(vMatch) == [k \in DOMAIN vMatch |-> GetHex(vMatch[k])]

\* 556-566: root mismatch gives the empty list before the chain is consulted;
\* a block outside the active chain is an error; else the matched ids.
verifytxoutproof_result_chainFirst(root, vMatch, header, index, chain) ==
    IF \/ GetBlockHash(header) \notin DOMAIN index
       \/ ~ChainContains(chain, index, GetBlockHash(header))
    THEN JSONRPCError("Block not found in chain")
    ELSE IF root # header.hashMerkleRoot
    THEN [txids |-> <<>>]
    ELSE [txids |-> MatchesToJSON(vMatch)]

verifytxoutproof_result_noChain(root, vMatch, header, index, chain) ==
    IF root # header.hashMerkleRoot
    THEN [txids |-> <<>>]
    ELSE [txids |-> MatchesToJSON(vMatch)]

verifytxoutproof_result_noRoot(root, vMatch, header, index, chain) ==
    IF \/ GetBlockHash(header) \notin DOMAIN index
       \/ ~ChainContains(chain, index, GetBlockHash(header))
    THEN JSONRPCError("Block not found in chain")
    ELSE [txids |-> MatchesToJSON(vMatch)]

verifytxoutproof_result(root, vMatch, header, index, chain) ==
    IF root # header.hashMerkleRoot
    THEN [txids |-> <<>>]
    ELSE IF \/ GetBlockHash(header) \notin DOMAIN index
            \/ ~ChainContains(chain, index, GetBlockHash(header))
    THEN JSONRPCError("Block not found in chain")
    ELSE [txids |-> MatchesToJSON(vMatch)]

\* 549-566.  For a tree whose bits and hashes do not fit its declared size
\* ExtractMatches returns the null hash, which the comparison of 556 treats
\* as any other root that differs from the declared one.
verifytxoutproof ==
    /\ pc \in {"proof", "corrupted"}
    /\ rpc' = "verifytxoutproof"
    /\ LET merkleBlock == DeserializeMerkleBlock(proof)
           em          == ExtractMatches(merkleBlock.txn)
       IN  result' = verifytxoutproof_result(em.root, em.vMatch, merkleBlock.header,
                                             mapBlockIndex, chainActive)
    /\ pc' = "done"
    /\ UNCHANGED <<pcoinsTip, mempool, signVars, chainVars, proofVars, lockVars>>
    /\ UNCHANGED relayed

ProofNext ==
    \/ gettxoutproof
    \/ Corrupt
    \/ verifytxoutproof

ProofSpec == ProofInit /\ [][ProofNext]_vars

\* ================================================ the handlers and the node
\* The proof handlers step by step, as the other threads of the node see
\* them, and the steps of those threads.  pc names the next step of the
\* handler: "gp_lock" (ids parsed), "gp_resolve" (cs_main taken), "gp_read"
\* (block resolved), "vp_lock" (root matched), "vp_chain" (cs_main taken).

\* 477-489: parse the ids; no lock is held yet
gettxoutproof_parse ==
    /\ pc = "idle"
    /\ rpc' = "gettxoutproof"
    /\ \E txids \in TxidParams, blockParam \in BlockParams :
        /\ request' = [txids |-> txids, block |-> blockParam, proof |-> NoProof]
        /\ IF Cardinality({uint256S(txids[k]) : k \in DOMAIN txids}) # Len(txids)
           THEN Throw("Invalid parameter, duplicated txid")
           ELSE pc' = "gp_lock" /\ UNCHANGED result
    /\ UNCHANGED <<pcoinsTip, mempool, signVars, chainVars, proof, lockVars>>
    /\ UNCHANGED relayed

\* 491: LOCK(cs_main)
gettxoutproof_lock_skipped ==
    /\ pc = "gp_lock"
    /\ pc' = "gp_resolve"
    /\ UNCHANGED <<pcoinsTip, mempool, signVars, chainVars, proofVars, result, rpc,
                   lockVars>>
    /\ UNCHANGED relayed

gettxoutproof_lock ==
    /\ pc = "gp_lock"
    /\ cs_main = "free"
    /\ cs_main' = "rpc"
    /\ pc' = "gp_resolve"
    /\ UNCHANGED <<pcoinsTip, mempool, signVars, chainVars, proofVars, result, rpc,
                   mempool_cs>>
    /\ UNCHANGED relayed

\* 493-507: resolve the block from the block index or the coins; when
\* neither gives it, GetTransaction is called (511), whose mempool lookup
\* takes mempool.cs
gettxoutproof_resolve ==
    /\ pc = "gp_resolve"
    /\ LET oneTxid == IF request.txids = <<>> THEN NullHash
                      ELSE uint256S(request.txids[Len(request.txids)])
           b       == gettxoutproof_block(request.block, oneTxid)
       IN  IF request.block = NoBlockParam /\ ~gettxoutproof_coins(oneTxid)
           THEN /\ mempool_cs = "free"
                /\ mempool_cs' = "rpc"
                /\ pc' = "gp_pool"
                /\ UNCHANGED <<request, result>>
           ELSE /\ IF b.err # ""
                   THEN Throw(b.err) /\ UNCHANGED request
                   ELSE /\ request' = [txids |-> request.txids, block |-> request.block,
                                       proof |-> NoProof, hashBlock |-> b.hashBlock]
                        /\ pc' = "gp_read"
                        /\ UNCHANGED result
                /\ UNCHANGED mempool_cs
    /\ HoldUntilReturn
    /\ UNCHANGED <<pcoinsTip, mempool, signVars, chainVars, proof, rpc>>
    /\ UNCHANGED relayed

\* 508-516: GetTransaction looks the id up in the mempool and then in the
\* transaction index; mempool.cs is released when the lookup returns
gettxoutproof_lookup ==
    /\ pc = "gp_pool"
    /\ LET oneTxid == IF request.txids = <<>> THEN NullHash
                      ELSE uint256S(request.txids[Len(request.txids)])
           b       == gettxoutproof_block(request.block, oneTxid)
       IN  IF b.err # ""
           THEN Throw(b.err) /\ UNCHANGED request
           ELSE /\ request' = [txids |-> request.txids, block |-> request.block,
                               proof |-> NoProof, hashBlock |-> b.hashBlock]
                /\ pc' = "gp_read"
                /\ UNCHANGED result
    /\ mempool_cs' = "free"
    /\ HoldUntilReturn
    /\ UNCHANGED <<pcoinsTip, mempool, signVars, chainVars, proof, rpc>>
    /\ UNCHANGED relayed

\* 518-533: read the block, count the targets in it, build the proof, return
gettxoutproof_build ==
    /\ pc = "gp_read"
    /\ LET setTxids == {uint256S(request.txids[k]) : k \in DOMAIN request.txids}
           block    == blockFiles[request.hashBlock]
           ntxFound == Cardinality({k \in DOMAIN block.vtx : Txid(block.vtx[k]) \in setTxids})
       IN  IF request.hashBlock \notin DOMAIN blockFiles
           THEN Throw("Can't read block from disk") /\ UNCHANGED proofVars
           ELSE IF ~AllFound(ntxFound, setTxids)
           THEN Throw(NotAllFound) /\ UNCHANGED proofVars
           ELSE /\ proof' = SerializeMerkleBlock(MerkleBlock(block, setTxids))
                /\ result' = [proof |-> proof']
                /\ request' = [txids |-> request.txids, block |-> request.block,
                               proof |-> proof', hashBlock |-> request.hashBlock]
                /\ pc' = "proof"
    /\ cs_main' = "free"
    /\ UNCHANGED <<pcoinsTip, mempool, signVars, chainVars, rpc, mempool_cs>>
    /\ UNCHANGED relayed

\* 549-557: deserialize the proof, recompute the root, compare it with the
\* declared one; no lock is held yet
verifytxoutproof_extract ==
    /\ pc \in {"proof", "corrupted"}
    /\ rpc' = "verifytxoutproof"
    /\ LET merkleBlock == DeserializeMerkleBlock(proof)
           em          == ExtractMatches(merkleBlock.txn)
       IN  IF em.root # merkleBlock.header.hashMerkleRoot
           THEN /\ result' = verifytxoutproof_result(em.root, em.vMatch, merkleBlock.header,
                                                     mapBlockIndex, chainActive)
                /\ pc' = "done"
           ELSE pc' = "vp_lock" /\ UNCHANGED result
    /\ UNCHANGED <<pcoinsTip, mempool, signVars, chainVars, proofVars, lockVars>>
    /\ UNCHANGED relayed

\* 559: LOCK(cs_main)
verifytxoutproof_lock ==
    /\ pc = "vp_lock"
    /\ cs_main = "free"
    /\ cs_main' = "rpc"
    /\ pc' = "vp_chain"
    /\ UNCHANGED <<pcoinsTip, mempool, signVars, chainVars, proofVars, result, rpc,
                   mempool_cs>>
    /\ UNCHANGED relayed

\* 561-566: the header's block must be in the active chain; return the ids
verifytxoutproof_chain ==
    /\ pc = "vp_chain"
    /\ LET merkleBlock == DeserializeMerkleBlock(proof)
           em          == ExtractMatches(merkleBlock.txn)
       IN  result' = verifytxoutproof_result(em.root, em.vMatch, merkleBlock.header,
                                             mapBlockIndex, chainActive)
    /\ pc' = "done"
    /\ cs_main' = "free"
    /\ UNCHANGED <<pcoinsTip, mempool, signVars, chainVars, proofVars, rpc, mempool_cs>>
    /\ UNCHANGED relayed

\* ------------------------------------------------- the node's other threads
\* Each of their steps runs under cs_main (the mempool's also under
\* mempool.cs), so it can start only when the lock is free.  They are
\* followed while a call is being served.
Serving == pc \notin {"idle", "done"}

NewBlock == Block(104, <<7>>)

\* a block of the index or a new one is connected on top of the active chain
ConnectBlock ==
    /\ Serving
    /\ cs_main = "free"
    /\ \E b \in {StaleBlock, NewBlock} :
        LET h  == GetBlockHash(b.header)
            ht == IF h \in DOMAIN mapBlockIndex THEN mapBlockIndex[h].nHeight
                  ELSE Len(chainActive)
        IN  /\ ht = Len(chainActive)
            /\ h \notin {chainActive[k] : k \in DOMAIN chainActive}
            /\ chainActive' = Append(chainActive, h)
            /\ mapBlockIndex' = [g \in DOMAIN mapBlockIndex \cup {h} |->
                                    IF g = h THEN [nHeight |-> ht] ELSE mapBlockIndex[g]]
            /\ blockFiles' = [g \in DOMAIN blockFiles \cup {h} |->
                                 IF g = h THEN b ELSE blockFiles[g]]
            /\ txindex' = [t \in DOMAIN txindex \cup {Txid(b.vtx[k]) : k \in DOMAIN b.vtx} |->
                              IF t \in {Txid(b.vtx[k]) : k \in DOMAIN b.vtx} THEN h
                              ELSE txindex[t]]
            /\ pcoinsTip' = [t \in DOMAIN pcoinsTip \cup {b.vtx[k] : k \in DOMAIN b.vtx} |->
                                IF t \in {b.vtx[k] : k \in DOMAIN b.vtx}
                                THEN [vout |-> <<TxOut(1, {1})>>, nHeight |-> ht]
                                ELSE pcoinsTip[t]]
            /\ mempool' = [t \in DOMAIN mempool \ {b.vtx[k] : k \in DOMAIN b.vtx} |->
                              mempool[t]]
    /\ UNCHANGED <<pc, signVars, result, rpc, proofVars, lockVars>>
    /\ UNCHANGED relayed

\* the tip of the active chain is disconnected
DisconnectBlock ==
    /\ Serving
    /\ cs_main = "free"
    /\ Len(chainActive) >= 2
    /\ LET b == blockFiles[chainActive[Len(chainActive)]]
       IN  /\ chainActive' = SubSeq(chainActive, 1, Len(chainActive) - 1)
           /\ pcoinsTip' = [t \in DOMAIN pcoinsTip \ {b.vtx[k] : k \in DOMAIN b.vtx} |->
                               pcoinsTip[t]]
    /\ UNCHANGED <<mempool, pc, signVars, result, rpc, proofVars, lockVars,
                   mapBlockIndex, blockFiles, txindex>>
    /\ UNCHANGED relayed

\* a transaction is accepted to the mempool
AcceptToMemoryPool ==
    /\ Serving
    /\ cs_main = "free" /\ mempool_cs = "free"
    /\ 8 \notin DOMAIN mempool
    /\ mempool' = [t \in DOMAIN mempool \cup {8} |->
                      IF t = 8 THEN <<{1}>> ELSE mempool[t]]
    /\ UNCHANGED <<pcoinsTip, pc, signVars, result, rpc, proofVars, lockVars, chainVars>>
    /\ UNCHANGED relayed

\* The node of the signing calls with its chain: genesis, the active block
\* (id 101) holding transactions 1 and 3 (3 fully spent), the stale block.
ConcInit ==
    /\ LET hG == GetBlockHash(GenesisBlock.header)
           hB == GetBlockHash(Block(101, <<1, 3>>).header)
           hS == GetBlockHash(StaleBlock.header)
       IN  /\ blockFiles = (hG :> GenesisBlock) @@ (hB :> Block(101, <<1, 3>>))
                              @@ (hS :> StaleBlock)
           /\ mapBlockIndex = (hG :> [nHeight |-> 0]) @@ (hB :> [nHeight |-> 1])
                                 @@ (hS :> [nHeight |-> 1])
           /\ chainActive = <<hG, hB>>
           /\ txindex = (Txid(3) :> hB) @@ (Txid(9) :> hS)
    /\ pcoinsTip = (1 :> [vout |-> <<TxOut(1, {1}), NullTxOut>>, nHeight |-> 1])
    /\ mempool = (2 :> <<{1, 2}>>)
    /\ pc = "idle"
    /\ txVariants = <<>>
    /\ mergedTx = [vin |-> <<>>, vout |-> <<>>]
    /\ view = <<>>
    /\ tempKeystore = {}
    /\ nHashType = 1
    /\ i = 0
    /\ vErrors = <<>>
    /\ result = [pending |-> TRUE]
    /\ rpc = "none"
    /\ calls = [sign |-> 0, combine |-> 0, verify |-> 0, combined |-> <<>>]
    /\ visited = <<>>
    /\ errorInputs = <<>>
    /\ proof = NoProof
    /\ request = NoRequest
    /\ cs_main = "free"
    /\ mempool_cs = "free"
    /\ relayed = <<>>

ConcNext ==
    \/ signrawtransaction_decode
    \/ signrawtransaction_lock
    \/ signrawtransaction_fetch
    \/ signrawtransaction_params
    \/ signrawtransaction_input
    \/ signrawtransaction_return
    \/ signrawcertificate_decode
    \/ signrawcertificate_lock
    \/ signrawcertificate_fetch
    \/ signrawcertificate_params
    \/ signrawcertificate_input
    \/ signrawcertificate_return
    \/ gettxoutproof_parse
    \/ gettxoutproof_lock
    \/ gettxoutproof_resolve
    \/ gettxoutproof_lookup
    \/ gettxoutproof_build
    \/ Corrupt
    \/ verifytxoutproof_extract
    \/ verifytxoutproof_lock
    \/ verifytxoutproof_chain
    \/ ConnectBlock
    \/ DisconnectBlock
    \/ AcceptToMemoryPool

ConcSpec == ConcInit /\ [][ConcNext]_vars

\* ===================================================== properties: signing
SignRpcs == {"signrawtransaction", "signrawcertificate"}
Returned == pc = "done" /\ rpc \in SignRpcs /\ IsResult(result)
Range(seq) == {seq[k] : k \in DOMAIN seq}
NoCalls == [sign |-> 0, combine |-> 0, verify |-> 0, combined |-> <<>>]

\* The referenced output of input k (1-based) is available to the loop.
Resolved(k) ==
    LET po == mergedTx.vin[k].prevout
    IN  po.hash \in DOMAIN view /\ IsAvailable(view[po.hash], po.n)

LockingScript(k) ==
    LET po == mergedTx.vin[k].prevout
    IN  view[po.hash].vout[po.n + 1].scriptPubKey

AllUnavailable == \A k \in DOMAIN mergedTx.vin : ~Resolved(k)

\* C1: whenever signrawtransaction or signrawcertificate returns a result,
\* complete is true exactly when no per-input error was recorded, and the
\* errors field is present exactly when complete is false; when present it is
\* the non-empty list of recorded errors.
C1_CompleteIffNoErrors ==
    Returned =>
        /\ result.complete <=> (vErrors = <<>>)
        /\ ("errors" \in DOMAIN result) <=> ~result.complete
        /\ ("errors" \in DOMAIN result) => (result.errors = vErrors /\ result.errors # <<>>)

C1_Witness ==
    /\ Returned /\ rpc = "signrawcertificate"
    /\ ~result.complete /\ "errors" \in DOMAIN result

\* C2 as stated: for a decoded request with valid keys and sighash type,
\* whatever previous outputs the caller supplies, signrawtransaction ends by
\* returning a result object and never by raising an error.
C2_NeverRaises ==
    (/\ pc = "done" /\ rpc = "signrawtransaction" /\ txVariants # <<>>
     /\ ~(IsError(result) /\ result.error \in {"Invalid private key", "Invalid sighash param"}))
    => IsResult(result)

RequestErrors ==
    {"TX decode failed", "Missing transaction", "Invalid private key",
     "vout must be positive", "Previous output scriptPubKey mismatch",
     "Invalid sighash param"}

\* C2 (amended): every error signrawtransaction raises is a request-validation
\* error raised before the first input is processed; once the per-input loop
\* has started the call can always go on and ends by returning the result
\* object, partial failure showing only as complete = false with a populated
\* errors list.
C2_RaisesOnlyBeforeLoop ==
    rpc = "signrawtransaction" =>
        /\ IsError(result) =>
              /\ result.error \in RequestErrors
              /\ visited = <<>> /\ vErrors = <<>> /\ calls = NoCalls
        /\ pc = "tx_loop" =>
              /\ ~IsError(result)
              /\ ENABLED (signrawtransaction_input \/ signrawtransaction_return)
        /\ (pc = "done" /\ visited # <<>>) =>
              /\ IsResult(result)
              /\ vErrors # <<>> => (~result.complete /\ result.errors = vErrors)

C2_Witness ==
    /\ Returned /\ rpc = "signrawtransaction"
    /\ ~result.complete /\ Len(result.errors) = 2
    /\ result.errors[1].error = "Input not found or already spent"
    /\ result.errors[2].error = ScriptErrorString

\* C3: the per-input loop visits the inputs 0, 1, ... in ascending order, each
\* once, whatever happened to earlier inputs; a returned result has visited
\* them all; every input has at most one error record and the records are in
\* ascending input order.
C3_EveryInputVisitedInOrder ==
    rpc \in SignRpcs =>
        /\ visited = [k \in 1..Len(visited) |-> k - 1]
        /\ pc \in {"tx_loop", "cert_loop"} => Len(visited) = i
        /\ Returned => Len(visited) = Len(mergedTx.vin)
        /\ Len(errorInputs) = Len(vErrors)
        /\ Range(errorInputs) \subseteq Range(visited)
        /\ \A a, b \in DOMAIN errorInputs : a < b => errorInputs[a] < errorInputs[b]

C3_Witness ==
    /\ Returned
    /\ visited = <<0, 1>>
    /\ errorInputs = <<0>>
    /\ vErrors[1].error = "Input not found or already spent"
    /\ calls.verify = 1

\* C4: an input has an error record exactly when its referenced output is
\* unavailable or its final script fails verification against the resolved
\* locking script; the record names that input's outpoint, and the returned
\* entity carries the final scripts.
C4_ErrorsNameFailingInputs ==
    rpc \in SignRpcs =>
        /\ \A k \in 1..Len(visited) :
              ((k - 1) \in Range(errorInputs)) <=>
                  (~Resolved(k) \/ ~VerifyScript(mergedTx.vin[k].scriptSig, LockingScript(k)))
        /\ \A j \in DOMAIN errorInputs :
              /\ j \in DOMAIN vErrors
              /\ vErrors[j].txid = mergedTx.vin[errorInputs[j] + 1].prevout.hash
              /\ vErrors[j].vout = mergedTx.vin[errorInputs[j] + 1].prevout.n
        /\ Returned => result.hex = EncodeHex(mergedTx)

C4_Witness ==
    /\ Returned /\ rpc = "signrawtransaction"
    /\ Len(mergedTx.vin) = 2
    /\ Resolved(1) /\ ~Resolved(2)
    /\ txVariants[1].vin[1].scriptSig = EmptyScript
    /\ tempKeystore # {}
    /\ VerifyScript(mergedTx.vin[1].scriptSig, LockingScript(1))
    /\ ~result.complete
    /\ Len(result.errors) = 1 /\ errorInputs = <<1>>

\* C5 as stated: whenever every input's referenced output is unavailable the
\* result is incomplete and has one error record per input.
C5_AllUnavailableIncomplete ==
    (Returned /\ AllUnavailable) =>
        (~result.complete /\ Len(vErrors) = Len(mergedTx.vin))

\* C5 (amended): whenever every input's referenced output is unavailable the
\* result has one error record per input, and it is incomplete if the entity
\* has at least one input (an entity without inputs is complete).
C5_AllUnavailableOneErrorEach ==
    (Returned /\ AllUnavailable) =>
        /\ Len(vErrors) = Len(mergedTx.vin)
        /\ Len(mergedTx.vin) > 0 => (~result.complete /\ Len(result.errors) = Len(mergedTx.vin))
        /\ Len(mergedTx.vin) = 0 => result.complete

C5_Witness ==
    /\ Returned /\ AllUnavailable
    /\ Len(mergedTx.vin) = 2
    /\ mergedTx.vin[1].prevout # mergedTx.vin[2].prevout
    /\ ~result.complete /\ Len(result.errors) = 2

\* C6: an entity without inputs is complete: the result has complete = true,
\* no errors field and the base entity unchanged, and neither signer, combiner
\* nor verifier was invoked.
C6_ZeroInputsComplete ==
    (Returned /\ Len(txVariants[1].vin) = 0) =>
        /\ result.complete
        /\ "errors" \notin DOMAIN result
        /\ result.hex = EncodeHex(txVariants[1])
        /\ calls = NoCalls

C6_Witness ==
    /\ Returned /\ rpc = "signrawtransaction"
    /\ Len(txVariants) = 2
    /\ Len(txVariants[1].vin) = 0
    /\ tempKeystore = {1, 2}
    /\ result.complete

\* C7: no step of signrawtransaction or signrawcertificate changes the
\* persisted coin set or the mempool; what the call adds or fetches lands in
\* its local cache.
C7_NoWriteBack ==
    [][(rpc' \in SignRpcs) => (pcoinsTip' = pcoinsTip /\ mempool' = mempool)]_vars

C7_Witness ==
    /\ pc = "done" /\ rpc = "signrawtransaction" /\ IsError(result)
    /\ 3 \in DOMAIN view /\ 3 \notin DOMAIN pcoinsTip
    /\ view[3].vout[1].nValue = 0

\* ============================================ properties: inclusion proofs
\* the target set of the gettxoutproof call and the block it resolved
TargetSet == {uint256S(request.txids[k]) : k \in DOMAIN request.txids}

ResolvedBlock ==
    gettxoutproof_block(request.block,
        IF request.txids = <<>> THEN NullHash
        ELSE uint256S(request.txids[Len(request.txids)]))

BlockTxids(hashBlock) ==
    [k \in DOMAIN blockFiles[hashBlock].vtx |-> Txid(blockFiles[hashBlock].vtx[k])]

IsTarget(hash) == hash \in TargetSet

\* verifytxoutproof has answered for the proof exactly as gettxoutproof built it
VerifiedAsBuilt ==
    /\ pc = "done" /\ rpc = "verifytxoutproof"
    /\ proof # NoProof /\ proof = request.proof

OnBestChain(hashBlock) ==
    hashBlock \in DOMAIN mapBlockIndex /\ ChainContains(chainActive, mapBlockIndex, hashBlock)

\* C8 as stated: verifying the proof built for a non-empty set of ids of any
\* block known to the builder returns exactly those ids.
C8_RoundTripAnyBlock ==
    (VerifiedAsBuilt /\ TargetSet # {}) =>
        /\ "txids" \in DOMAIN result
        /\ Range(result.txids) = {GetHex(h) : h \in TargetSet}

\* C8 (amended): verifying the proof built for a non-empty set of ids of a
\* block of the active chain returns exactly those ids, each once, in the
\* order the block holds them; for a block outside the active chain the
\* verification fails with the block-not-in-chain error.
C8_RoundTripBestChain ==
    (VerifiedAsBuilt /\ TargetSet # {}) =>
        IF OnBestChain(GetBlockHash(proof.header))
        THEN /\ "txids" \in DOMAIN result
             /\ LET inBlock == SelectSeq(BlockTxids(GetBlockHash(proof.header)), IsTarget)
                IN  result.txids = [k \in DOMAIN inBlock |-> GetHex(inBlock[k])]
             /\ Range(result.txids) = {GetHex(h) : h \in TargetSet}
             /\ Len(result.txids) = Cardinality(TargetSet)
        ELSE result = JSONRPCError("Block not found in chain")

C8_Witness ==
    /\ VerifiedAsBuilt
    /\ OnBestChain(GetBlockHash(proof.header))
    /\ proof.nTransactions = 4
    /\ result.txids = <<GetHex(Txid(3)), GetHex(Txid(1))>>

\* the block is resolved and read, and some target id is not in it
SomeTargetAbsent ==
    /\ rpc = "gettxoutproof" /\ pc \in {"proof", "done"}
    /\ Cardinality(TargetSet) = Len(request.txids)
    /\ ResolvedBlock.err = ""
    /\ ResolvedBlock.hashBlock \in DOMAIN blockFiles
    /\ \E t \in TargetSet : t \notin Range(BlockTxids(ResolvedBlock.hashBlock))

\* C9 as stated: when some target id is absent from the resolved block,
\* gettxoutproof fails with the error text
\* "not all transactions found in specified block" and builds no proof.
C9_AllOrNothingAsWorded ==
    SomeTargetAbsent =>
        /\ result = JSONRPCError("not all transactions found in specified block")
        /\ proof = NoProof

\* C9 (amended): gettxoutproof is all-or-nothing: when the block is resolved
\* and read and some target id is not in it, the call fails with the error
\* "(Not all) transactions not found in specified block" and no proof exists
\* (none over the ids that were found either); a proof is built
\* only when the number of block transactions in the target set equals the
\* size of the target set.
C9_AllOrNothing ==
    (rpc = "gettxoutproof" /\ pc \in {"proof", "done"}) =>
        LET b   == ResolvedBlock
            ids == BlockTxids(b.hashBlock)
        IN  /\ (/\ Cardinality(TargetSet) = Len(request.txids)
                /\ b.err = "" /\ b.hashBlock \in DOMAIN blockFiles
                /\ \E t \in TargetSet : t \notin Range(ids))
               => (/\ result = JSONRPCError(NotAllFound)
                   /\ proof = NoProof /\ pc = "done")
            /\ proof # NoProof
               => (/\ b.err = ""
                   /\ TargetSet \subseteq Range(ids)
                   /\ Cardinality({k \in DOMAIN ids : ids[k] \in TargetSet})
                        = Cardinality(TargetSet)
                   /\ proof.header = blockFiles[b.hashBlock].header)

C9_Witness ==
    /\ rpc = "gettxoutproof" /\ pc = "done"
    /\ request.block = GetHex(chainActive[2])
    /\ TargetSet = {Txid(2), Txid(9)}
    /\ Txid(2) \in Range(BlockTxids(chainActive[2]))
    /\ result = JSONRPCError(NotAllFound)
    /\ proof = NoProof

RecomputedRoot == ExtractMatches(DeserializeMerkleBlock(proof).txn)

\* C10: when the root recomputed from the proof differs from the root its
\* header declares, verifytxoutproof returns the empty list and raises
\* nothing, whether or not the header's block is known or on the best chain.
C10_RootMismatchEmptyList ==
    (/\ pc = "done" /\ rpc = "verifytxoutproof"
     /\ RecomputedRoot.root # proof.header.hashMerkleRoot)
    => result = [txids |-> <<>>]

C10_Witness ==
    /\ pc = "done" /\ rpc = "verifytxoutproof"
    /\ ~RecomputedRoot.fBad
    /\ RecomputedRoot.root # proof.header.hashMerkleRoot
    /\ GetBlockHash(proof.header) \in DOMAIN mapBlockIndex
    /\ ~OnBestChain(GetBlockHash(proof.header))
    /\ result = [txids |-> <<>>]

\* verifytxoutproof has answered
Verified == pc = "done" /\ rpc = "verifytxoutproof"

\* C11: when the recomputed root equals the declared root but the header's
\* block is not in the block index or not in the active chain,
\* verifytxoutproof fails with the block-not-found-in-chain error, which is
\* not the empty list of a root mismatch, and returns no ids; with the block
\* on the active chain it returns the matched ids.
C11_RootMatchNeedsBestChain ==
    (/\ Verified
     /\ ~RecomputedRoot.fBad
     /\ RecomputedRoot.root = proof.header.hashMerkleRoot)
    => IF OnBestChain(GetBlockHash(proof.header))
       THEN result = [txids |-> [k \in DOMAIN RecomputedRoot.vMatch |->
                                     GetHex(RecomputedRoot.vMatch[k])]]
       ELSE /\ result = JSONRPCError("Block not found in chain")
            /\ result # [txids |-> <<>>]
            /\ "txids" \notin DOMAIN result

C11_Witness ==
    /\ Verified
    /\ ~RecomputedRoot.fBad
    /\ RecomputedRoot.root = proof.header.hashMerkleRoot
    /\ RecomputedRoot.vMatch # <<>>
    /\ GetBlockHash(proof.header) \notin DOMAIN mapBlockIndex
    /\ result = JSONRPCError("Block not found in chain")

\* The number of retained hashes the bitmask asks for, found by replaying the
\* bits over a tree of the declared leaf count; fOver when the bits run out.
RECURSIVE ReplayBits(_, _, _, _)
ReplayBits(height, pos, st, pmt) ==
    IF st.fOver \/ st.nBits >= Len(pmt.vBits) THEN [st EXCEPT !.fOver = TRUE]
    ELSE LET st1 == [st EXCEPT !.nBits = @ + 1]
         IN  IF height = 0 \/ ~pmt.vBits[st.nBits + 1]
             THEN [st1 EXCEPT !.nHashes = @ + 1]
             ELSE LET l == ReplayBits(height - 1, pos * 2, st1, pmt)
                  IN  IF pos * 2 + 1 < CalcTreeWidth(pmt.nTransactions, height - 1)
                      THEN ReplayBits(height - 1, pos * 2 + 1, l, pmt)
                      ELSE l

ImpliedHashCount(pmt) ==
    ReplayBits(TreeHeight(pmt.nTransactions, 0), 0,
               [nBits |-> 0, nHashes |-> 0, fOver |-> FALSE], pmt)

HashCountMismatch ==
    LET pmt == DeserializeMerkleBlock(proof).txn
    IN  /\ pmt.nTransactions > 0
        /\ ~ImpliedHashCount(pmt).fOver
        /\ ImpliedHashCount(pmt).nHashes # Len(pmt.vHash)

\* C12: a proof whose bitmask asks for a number of retained hashes other than
\* the number it carries is rejected whatever the hashes are: verifytxoutproof
\* ends with an error, not with the empty list, and returns no ids, also
\* when the header's block is unknown or stale.
C12_HashCountMismatchRejected ==
    (Verified /\ HashCountMismatch) =>
        /\ IsError(result)
        /\ result # [txids |-> <<>>]
        /\ "txids" \notin DOMAIN result

\* what the handler answers to such a proof: the empty list of a root
\* mismatch, whatever the header's block is
HashCountMismatchEmptyList ==
    (Verified /\ HashCountMismatch) => result = [txids |-> <<>>]

\* a proof with a hash added, for a block of the active chain
HashAddedVerified ==
    /\ Verified /\ HashCountMismatch
    /\ Len(proof.vHash) = Len(request.proof.vHash) + 1
    /\ OnBestChain(GetBlockHash(proof.header))

\* the proof verified is the one built, but for its retained hashes: one
\* replaced, the last one lost, or one added
HashesAltered ==
    /\ request.proof # NoProof
    /\ proof = [request.proof EXCEPT !.vHash = proof.vHash]
    /\ proof.vHash # request.proof.vHash

\* C13: a built proof with an altered retained hash verifies to the empty
\* list; and verifytxoutproof returns a non-empty list only when the
\* recomputed root equals the declared root and the header's block is on the
\* active chain.
C13_NoFalseSuccess ==
    Verified =>
        /\ HashesAltered => result = [txids |-> <<>>]
        /\ ("txids" \in DOMAIN result /\ result.txids # <<>>)
           => (/\ ~RecomputedRoot.fBad
               /\ RecomputedRoot.root = proof.header.hashMerkleRoot
               /\ OnBestChain(GetBlockHash(proof.header)))

C13_Witness ==
    /\ Verified /\ HashesAltered
    /\ OnBestChain(GetBlockHash(proof.header))
    /\ proof.nTransactions = 4
    /\ \E k \in DOMAIN proof.vHash :
          proof.vHash[k] = BadHash /\ request.proof.vHash[k] \in TargetSet
    /\ result = [txids |-> <<>>]

\* ---------------------------------------------------------------- sighash
SigHashSymbols ==
    {"ALL", "NONE", "SINGLE", "ALL|ANYONECANPAY", "NONE|ANYONECANPAY",
     "SINGLE|ANYONECANPAY"}

\* signrawtransaction has read its sighashtype argument
HashTypeRead ==
    /\ rpc = "signrawtransaction" /\ pc \in {"tx_loop", "done"}
    /\ "sighashtype" \in DOMAIN request

\* C14: the sighash selector accepts exactly the six symbols: each of them
\* selects its own hash type and is never rejected as a selector, any other
\* string ends the call with a request-validation error before an input is
\* signed, merged or verified, and an absent or null selector means ALL.
C14_SigHashSymbols ==
    HashTypeRead =>
        LET str == request.sighashtype
        IN  /\ (str # NullParam /\ str \notin SigHashSymbols) =>
                  /\ pc = "done" /\ IsError(result)
                  /\ result.error \in RequestErrors
                  /\ calls = NoCalls /\ visited = <<>>
            /\ result = JSONRPCError("Invalid sighash param") =>
                  (str # NullParam /\ str \notin SigHashSymbols)
            /\ (visited # <<>> \/ pc = "tx_loop") =>
                  nHashType = CASE str = NullParam -> 1
                                [] str = "ALL" -> 1
                                [] str = "NONE" -> 2
                                [] str = "SINGLE" -> 3
                                [] str = "ALL|ANYONECANPAY" -> 128 + 1
                                [] str = "NONE|ANYONECANPAY" -> 128 + 2
                                [] str = "SINGLE|ANYONECANPAY" -> 128 + 3

C14_Witness ==
    /\ HashTypeRead
    /\ request.sighashtype = "SINGLE|ANYONECANPAY"
    /\ pc = "done" /\ IsResult(result)
    /\ calls.verify > 0
    /\ nHashType = 131

\* ------------------------------------------------ certificates and transactions
\* The script the per-input steps of signrawtransaction (1436-1446) leave in
\* input k of an entity: clear, sign, fold in the script input k has in every
\* variant.
TxInputScript(k) ==
    LET prevPubKey == LockingScript(k)
        signed == IF ~fHashSingle(nHashType) \/ k - 1 < Len(mergedTx.vout)
                  THEN SignSignature(tempKeystore, prevPubKey, mergedTx, k - 1, nHashType)
                  ELSE EmptyScript
    IN  MergeVariants(prevPubKey, mergedTx, k - 1,
                      [scriptSig |-> signed, combined |-> <<>>], txVariants, 1).scriptSig

\* C15: signrawcertificate leaves in every resolved input the script the
\* per-input steps of signrawtransaction leave there (sign, then fold in the
\* scripts the entity arrived with), with an error exactly when that script
\* fails verification; so an input that arrives with a satisfying script and
\* for which no key is held keeps that script and has no error.
C15_CertificateAsTransaction ==
    (pc = "done" /\ rpc = "signrawcertificate" /\ IsResult(result)) =>
        \A k \in DOMAIN mergedTx.vin :
            Resolved(k) =>
                /\ mergedTx.vin[k].scriptSig = TxInputScript(k)
                /\ (k - 1 \in Range(errorInputs))
                      <=> ~VerifyScript(TxInputScript(k), LockingScript(k))
                /\ (/\ VerifyScript(txVariants[1].vin[k].scriptSig, LockingScript(k))
                    /\ tempKeystore \cap LockingScript(k) = {})
                   => (/\ mergedTx.vin[k].scriptSig = txVariants[1].vin[k].scriptSig
                       /\ k - 1 \notin Range(errorInputs))

\* the same statement about signrawtransaction, which holds
TransactionPerInputSteps ==
    (pc = "done" /\ rpc = "signrawtransaction" /\ IsResult(result)) =>
        \A k \in DOMAIN mergedTx.vin :
            Resolved(k) =>
                /\ mergedTx.vin[k].scriptSig = TxInputScript(k)
                /\ (k - 1 \in Range(errorInputs))
                      <=> ~VerifyScript(TxInputScript(k), LockingScript(k))

\* ------------------------------------------------------ the per-input steps
InLoop == pc \in {"tx_loop", "cert_loop"} /\ i < Len(mergedTx.vin)

\* C17: an input whose referenced output is unavailable (no coins entry,
\* spent, or index out of range) gets exactly one error record, with the text
\* "Input not found or already spent", and the loop goes on to the next input
\* without a call of the signer, the combiner or the verifier.
C17_UnavailableRecordedOnce ==
    [][(InLoop /\ ~Resolved(i + 1)) =>
          /\ Len(vErrors') = Len(vErrors) + 1
          /\ SubSeq(vErrors', 1, Len(vErrors)) = vErrors
          /\ vErrors'[Len(vErrors')].error = "Input not found or already spent"
          /\ vErrors'[Len(vErrors')].txid = mergedTx.vin[i + 1].prevout.hash
          /\ vErrors'[Len(vErrors')].vout = mergedTx.vin[i + 1].prevout.n
          /\ calls' = calls
          /\ i' = i + 1 /\ pc' = pc]_vars

C17_Witness ==
    /\ Returned
    /\ Len(mergedTx.vin) = 2
    /\ mergedTx.vin[1].prevout = [hash |-> 2, n |-> 1]
    /\ ~Resolved(1) /\ Resolved(2)
    /\ errorInputs = <<0>>
    /\ vErrors[1].error = "Input not found or already spent"
    /\ calls.sign = 1 /\ calls.verify = 1

\* records of vErrors about input k (counted from 1)
ErrorsOf(k) == {e \in DOMAIN vErrors : errorInputs[e] = k - 1}

\* C18 as stated: an unavailable input ends with an empty unlocking script in
\* the merged entity and in its error record, whatever script the base
\* entity had for it.
C18_UnavailableInputEmpty ==
    Returned =>
        \A k \in DOMAIN mergedTx.vin :
            ~Resolved(k) =>
                /\ mergedTx.vin[k].scriptSig = EmptyScript
                /\ result.hex.vin[k][3] = SerializeScript(EmptyScript)
                /\ \A e \in ErrorsOf(k) :
                      result.errors[e].scriptSig = SerializeScript(EmptyScript)

\* C18 (amended): an unavailable input ends with the unlocking script the
\* base entity had for it, in the merged entity and in its error record.
C18_UnavailableInputKeepsScript ==
    Returned =>
        \A k \in DOMAIN mergedTx.vin :
            ~Resolved(k) =>
                /\ mergedTx.vin[k].scriptSig = txVariants[1].vin[k].scriptSig
                /\ result.hex.vin[k][3] = SerializeScript(txVariants[1].vin[k].scriptSig)
                /\ ErrorsOf(k) # {}
                /\ \A e \in ErrorsOf(k) :
                      result.errors[e].scriptSig =
                          SerializeScript(txVariants[1].vin[k].scriptSig)

C18_Witness ==
    /\ Returned
    /\ Len(mergedTx.vin) >= 1 /\ "errors" \in DOMAIN result
    /\ ~Resolved(1)
    /\ txVariants[1].vin[1].scriptSig = {1}
    /\ mergedTx.vin[1].scriptSig = {1}
    /\ result.errors[1].scriptSig = 1

\* the script the signer leaves in input k (counted from 1) of signrawtransaction
Signed(k) ==
    IF ~fHashSingle(nHashType) \/ k - 1 < Len(mergedTx.vout)
    THEN SignSignature(tempKeystore, LockingScript(k), mergedTx, k - 1, nHashType)
    ELSE EmptyScript

\* the accumulator after the first n variants were folded in
RECURSIVE Accumulator(_, _)
Accumulator(k, n) ==
    IF n = 0 THEN Signed(k)
    ELSE CombineSignatures(LockingScript(k), mergedTx, k - 1,
                           Accumulator(k, n - 1), txVariants[n].vin[k].scriptSig)

\* C19: for an available input of signrawtransaction the combiner is invoked
\* once per variant, in the order the variants were supplied, each time with
\* the accumulator so far (at first the freshly signed script, empty when the
\* signer was skipped or had no key) and that variant's script for the input;
\* the input's script becomes the last accumulator, and the verifier runs
\* once, on that script.
C19_LeftFoldInOrder ==
    [][(pc = "tx_loop" /\ i < Len(mergedTx.vin) /\ Resolved(i + 1)) =>
          LET k     == i + 1
              final == Accumulator(k, Len(txVariants))
          IN  /\ calls'.combined = calls.combined \o
                     [n \in 1..Len(txVariants) |->
                         [nIn |-> i, scriptSig1 |-> Accumulator(k, n - 1),
                          scriptSig2 |-> txVariants[n].vin[k].scriptSig]]
              /\ mergedTx'.vin[k].scriptSig = final
              /\ calls'.verify = calls.verify + 1
              /\ IF VerifyScript(final, LockingScript(k))
                 THEN vErrors' = vErrors
                 ELSE /\ Len(vErrors') = Len(vErrors) + 1
                      /\ vErrors'[Len(vErrors')].scriptSig = SerializeScript(final)
                      /\ vErrors'[Len(vErrors')].error = ScriptErrorString]_vars

C19_Witness ==
    /\ Returned /\ rpc = "signrawtransaction"
    /\ Len(txVariants) = 2 /\ Len(mergedTx.vin) = 1
    /\ calls.combined = <<[nIn |-> 0, scriptSig1 |-> {1}, scriptSig2 |-> {}],
                          [nIn |-> 0, scriptSig1 |-> {1}, scriptSig2 |-> {2}]>>
    /\ mergedTx.vin[1].scriptSig = {1, 2}
    /\ calls.verify = 1
    /\ result.complete

OneVariant == Returned /\ rpc = "signrawtransaction" /\ Len(txVariants) = 1

\* C20 as stated: with the base entity as the only variant the combiner is
\* never invoked and every available input ends with the signer's output.
C20_OneVariantNoMerge ==
    OneVariant =>
        /\ calls.combine = 0
        /\ \A k \in DOMAIN mergedTx.vin :
              Resolved(k) => mergedTx.vin[k].scriptSig = Signed(k)

\* C20 (amended): with the base entity as the only variant the combiner is
\* invoked once for every available input, with the signer's output and the
\* script the base entity had for that input, and the input ends with the
\* combiner's result; that is the signer's output when the base had no
\* script for the input.
C20_OneVariantMergesBase ==
    OneVariant =>
        /\ calls.combine = Cardinality({k \in DOMAIN mergedTx.vin : Resolved(k)})
        /\ \A c \in DOMAIN calls.combined :
              /\ Resolved(calls.combined[c].nIn + 1)
              /\ calls.combined[c].scriptSig1 = Signed(calls.combined[c].nIn + 1)
              /\ calls.combined[c].scriptSig2 =
                    txVariants[1].vin[calls.combined[c].nIn + 1].scriptSig
        /\ \A k \in DOMAIN mergedTx.vin :
              Resolved(k) =>
                /\ mergedTx.vin[k].scriptSig =
                      CombineSignatures(LockingScript(k), mergedTx, k - 1, Signed(k),
                                        txVariants[1].vin[k].scriptSig)
                /\ txVariants[1].vin[k].scriptSig = EmptyScript
                      => mergedTx.vin[k].scriptSig = Signed(k)

C20_Witness ==
    /\ OneVariant
    /\ Len(mergedTx.vin) = 1 /\ Resolved(1)
    /\ LockingScript(1) = {1}
    /\ txVariants[1].vin[1].scriptSig = {1}
    /\ Signed(1) = EmptyScript
    /\ mergedTx.vin[1].scriptSig = {1}
    /\ calls.combine = 1
    /\ result.complete

\* ------------------------------------------------------------------ locking
\* positions at which a handler reads shared state in its next step or has
\* read it and not yet returned
ReadingPcs ==
    {"gp_resolve", "gp_pool", "gp_read", "vp_chain",
     "tx_fetch", "tx_params", "tx_loop", "cert_fetch", "cert_params", "cert_loop"}

\* positions at which the next step of a handler reads the mempool
MempoolReadingPcs == {"tx_fetch", "cert_fetch", "gp_pool"}

\* positions of the work done before cs_main is taken
UnlockedPcs == {"gp_lock", "vp_lock"}

\* while a handler is between its first read and its return, no step
\* changes the shared state
NoStepOfOthers ==
    [][(pc \in ReadingPcs) => UNCHANGED <<pcoinsTip, mempool, chainVars>>]_vars

\* C16: from its first read of shared state to its return a handler holds
\* cs_main; it holds mempool.cs exactly at the steps that read the mempool
\* (the fetch of the coins in the two signing handlers, the lookup of
\* GetTransaction in gettxoutproof), which it reaches with cs_main already
\* held; the steps before cs_main is taken leave it free; and while a
\* handler is between its first read and its return no step of another
\* thread changes the block index, the active chain, the coins, the mempool
\* or the block storage.
C16_SharedReadsUnderLock ==
    /\ [](pc \in ReadingPcs \cup {"tx_lock", "cert_lock"} => cs_main = "rpc")
    /\ [](pc \in MempoolReadingPcs <=> mempool_cs = "rpc")
    /\ [](pc \in UnlockedPcs => cs_main = "free")
    /\ NoStepOfOthers

C16_Witness ==
    /\ pc = "gp_read" /\ cs_main = "rpc"
    /\ 8 \in DOMAIN mempool
    /\ Len(chainActive) = 1

\* ------------------------------------------------------- SIGHASH_SINGLE
\* the values of SINGLE and SINGLE|ANYONECANPAY
SingleTypes == {3, 131}

\* the fold of input k's scripts of all variants, starting from the script acc
RECURSIVE FoldFrom(_, _, _)
FoldFrom(k, acc, n) ==
    IF n > Len(txVariants) THEN acc
    ELSE FoldFrom(k, (acc \cup txVariants[n].vin[k].scriptSig) \cap LockingScript(k), n + 1)

\* C21: with sighash type SINGLE or SINGLE|ANYONECANPAY the signer is invoked
\* for an available input i only if the working entity has an output at index
\* i; for i >= number of outputs the signer is skipped, but the input is
\* cleared (the fold starts from the empty script), merged with the variants'
\* scripts and verified; with every other type the signer is invoked for
\* every available input.
C21_SingleSignsOnlyWithOutput ==
    [][(pc = "tx_loop" /\ i < Len(mergedTx.vin) /\ Resolved(i + 1)) =>
          LET k       == i + 1
              fSigner == nHashType \notin SingleTypes \/ i < Len(mergedTx.vout)
          IN  /\ calls'.sign = calls.sign + (IF fSigner THEN 1 ELSE 0)
              /\ calls'.verify = calls.verify + 1
              /\ Len(calls'.combined) = Len(calls.combined) + Len(txVariants)
              /\ ~fSigner =>
                    /\ calls'.combined[Len(calls.combined) + 1].scriptSig1 = EmptyScript
                    /\ mergedTx'.vin[k].scriptSig = FoldFrom(k, EmptyScript, 1)
                    /\ (Len(vErrors') > Len(vErrors))
                          <=> ~VerifyScript(FoldFrom(k, EmptyScript, 1), LockingScript(k))]_vars

C21_Witness ==
    /\ Returned /\ rpc = "signrawtransaction"
    /\ nHashType = 131
    /\ Len(mergedTx.vin) = 2 /\ Len(mergedTx.vout) = 1
    /\ Resolved(1) /\ Resolved(2)
    /\ tempKeystore = {1, 2}
    /\ txVariants[1].vin[2].scriptSig = {1}
    /\ LockingScript(2) = {1, 2}
    /\ calls.sign = 1 /\ calls.verify = 2
    /\ mergedTx.vin[2].scriptSig = {1}
    /\ errorInputs = <<1>>

\* ------------------------------------------------------------ working copy
\* input k of entity b is input k of entity a but for its unlocking script
SameButScript(a, b, k) ==
    /\ b.vin[k].prevout = a.vin[k].prevout
    /\ b.vin[k].nSequence = a.vin[k].nSequence

\* C22: the per-input loop works on its own copy: a step of the loop leaves
\* the supplied variants (the base, variant 0, included) as they were decoded,
\* and processing input i changes at most the unlocking script of input i of
\* the working entity: every other input, all prevouts and sequence numbers,
\* the number of inputs and the outputs stay as they were.
C22_WorkingCopyFrame ==
    [][InLoop =>
          /\ txVariants' = txVariants
          /\ Len(mergedTx'.vin) = Len(mergedTx.vin)
          /\ mergedTx'.vout = mergedTx.vout
          /\ \A k \in DOMAIN mergedTx.vin :
                /\ SameButScript(mergedTx, mergedTx', k)
                /\ k # i + 1 => mergedTx'.vin[k] = mergedTx.vin[k]]_vars

\* the working entity differs from the base, which still has the script it
\* came with, and a later input still awaits its turn
C22_Witness ==
    /\ pc = "tx_loop" /\ i = 1 /\ Len(mergedTx.vin) = 2
    /\ Resolved(1) /\ Resolved(2)
    /\ txVariants[1].vin[1].scriptSig = EmptyScript
    /\ mergedTx.vin[1].scriptSig = {1, 2}
    /\ txVariants[1].vin[2] = mergedTx.vin[2]
    /\ tempKeystore = {1, 2}

\* ================================================ the snapshot of the coins
\* signrawtransaction with a mempool that changes while the call is served.
\* The handler holds mempool.cs from 1314 to 1326 only; before and after, a
\* thread that takes it may add or remove pending transactions.
\* the mempool is updated: the pending transactions leave it (mined or
\* evicted) and transaction 3 enters it
MempoolUpdate ==
    /\ pc \notin {"idle", "done"}
    /\ mempool_cs = "free"
    /\ 3 \notin DOMAIN mempool
    /\ mempool' = (3 :> <<{1}>>)
    /\ UNCHANGED <<pcoinsTip, pc, signVars, result, rpc, chainVars, proofVars, lockVars>>
    /\ UNCHANGED relayed

\* The coins of the node: transaction 1 with output 0 unspent, the pruned
\* entry of transaction 2, whose outputs were spent in a block since
\* disconnected, and transaction 2 pending again in the mempool.
SnapInit ==
    /\ pcoinsTip = [t \in {1, 2} |->
                       IF t = 1 THEN [vout |-> <<TxOut(1, {1}), NullTxOut>>, nHeight |-> 1]
                       ELSE [vout |-> <<NullTxOut>>, nHeight |-> 1]]
    /\ mempool = (2 :> <<{1, 2}>>)
    /\ pc = "idle"
    /\ txVariants = <<>>
    /\ mergedTx = [vin |-> <<>>, vout |-> <<>>]
    /\ view = <<>>
    /\ tempKeystore = {}
    /\ nHashType = 1
    /\ i = 0
    /\ vErrors = <<>>
    /\ result = [pending |-> TRUE]
    /\ rpc = "none"
    /\ calls = [sign |-> 0, combine |-> 0, verify |-> 0, combined |-> <<>>]
    /\ visited = <<>>
    /\ errorInputs = <<>>
    /\ mapBlockIndex = <<>>
    /\ chainActive = <<>>
    /\ blockFiles = <<>>
    /\ txindex = <<>>
    /\ proof = NoProof
    /\ request = NoRequest
    /\ cs_main = "free"
    /\ mempool_cs = "free"
    /\ relayed = <<>>

\* The requests of this part spend outputs of transaction 1 (in the chain
\* state), 2 (pending, with a pruned entry in the chain state) and 3 (the one
\* that enters the mempool).
PendingPrevOuts == UNION {[1..n -> {<<1, 0>>, <<2, 0>>, <<3, 0>>}] : n \in 0..MaxIn}

PendingVariantLists ==
    {<<>>} \cup
    UNION {{<<Entity(pouts, b)>> \o [k \in 1..m |-> Entity(pouts, ks[k])] :
                pouts \in PendingPrevOuts, b \in BaseSigners,
                ks \in [1..m -> VariantSigners]} :
           m \in 0..(MaxVariants - 1)}

\* 1282-1312 for such a request
signrawtransaction_decode_pending ==
    /\ pc = "idle"
    /\ cs_main = "free"
    /\ rpc' = "signrawtransaction"
    /\ \E variants \in PendingVariantLists, fDecoded \in BOOLEAN :
        IF ~fDecoded
        THEN /\ Throw("TX decode failed")
             /\ UNCHANGED <<txVariants, mergedTx, lockVars>>
        ELSE IF variants = <<>>
        THEN /\ Throw("Missing transaction")
             /\ UNCHANGED <<txVariants, mergedTx, lockVars>>
        ELSE /\ txVariants' = variants
             /\ mergedTx' = variants[1]
             /\ cs_main' = "rpc"
             /\ pc' = "tx_lock"
             /\ UNCHANGED <<result, mempool_cs>>
    /\ UNCHANGED <<pcoinsTip, mempool, view, tempKeystore, nHashType, i, vErrors,
                   calls, visited, errorInputs>>
    /\ UNCHANGED <<chainVars, proofVars>>
    /\ UNCHANGED relayed

SnapNext ==
    \/ signrawtransaction_decode_pending
    \/ signrawtransaction_lock
    \/ signrawtransaction_fetch
    \/ signrawtransaction_params
    \/ signrawtransaction_input
    \/ signrawtransaction_return
    \/ MempoolUpdate

SnapSpec == SnapInit /\ [][SnapNext]_vars

\* output n of transaction h is there to spend in the coins c
AvailableIn(c, h, n) == h \in DOMAIN c /\ IsAvailable(c[h], n)

\* the outputs a pending transaction h creates
PendingCoins(h) ==
    [vout |-> [k \in DOMAIN mempool[h] |-> TxOut(1, mempool[h][k])],
     nHeight |-> MEMPOOL_HEIGHT]

\* the fetch step captures, for every prior id of the inputs, the pending
\* transaction if the mempool has it, else the unpruned coins of the chain
\* state, else nothing
SnapshotTaken ==
    (pc = "tx_fetch") =>
          /\ mempool_cs = "rpc"
          /\ \A k \in DOMAIN mergedTx.vin :
                LET h == mergedTx.vin[k].prevout.hash
                IN  IF h \in DOMAIN mempool
                    THEN h \in DOMAIN view' /\ view'[h] = PendingCoins(h)
                    ELSE IF h \in DOMAIN pcoinsTip /\ ~IsPruned(pcoinsTip[h])
                    THEN h \in DOMAIN view' /\ view'[h] = pcoinsTip[h]
                    ELSE h \notin DOMAIN view'
          /\ DOMAIN view' \subseteq {mergedTx.vin[k].prevout.hash : k \in DOMAIN mergedTx.vin}

\* after the fetch only the caller's previous outputs (value 0) are added
OnlySuppliedAdded ==
    (pc \in {"tx_params", "tx_loop"}) =>
          \A h \in DOMAIN view' :
              \A n \in 0..(Len(view'[h].vout) - 1) :
                  IsAvailable(view'[h], n) =>
                      \/ AvailableIn(view, h, n) /\ view'[h].vout[n + 1] = view[h].vout[n + 1]
                      \/ view'[h].vout[n + 1].nValue = 0

\* the loop resolves an input from the local coins alone, whatever the
\* mempool and the chain state hold by then
LoopReadsSnapshot ==
    (pc = "tx_loop" /\ i < Len(mergedTx.vin) /\ i' = i + 1) =>
          /\ view' = view
          /\ (/\ Len(vErrors') = Len(vErrors) + 1
              /\ vErrors'[Len(vErrors')].error = "Input not found or already spent")
             <=> ~AvailableIn(view, mergedTx.vin[i + 1].prevout.hash,
                              mergedTx.vin[i + 1].prevout.n)

\* C23: input resolution consults the mempool before the persisted chain
\* state and works on a snapshot: the coins are captured while mempool.cs is
\* held, a pending transaction's outputs resolving as available; afterwards
\* only the caller's previous outputs are added; and every resolution of the
\* per-input loop is answered from those coins, so that a prior id that was
\* not captured resolves as unavailable and a later change of the mempool
\* does not alter the outcome.
C23_ResolutionFromSnapshot ==
    [][SnapshotTaken /\ OnlySuppliedAdded /\ LoopReadsSnapshot]_vars

\* transaction 2 left the mempool after the fetch and transaction 3 entered
\* it: the input spending 2 is resolved and signed, the one spending 3 is not
\* found
C23_Witness ==
    /\ Returned /\ rpc = "signrawtransaction"
    /\ Len(mergedTx.vin) = 2
    /\ mergedTx.vin[1].prevout = [hash |-> 2, n |-> 0]
    /\ mergedTx.vin[2].prevout = [hash |-> 3, n |-> 0]
    /\ 2 \notin DOMAIN mempool /\ 3 \in DOMAIN mempool
    /\ IsPruned(pcoinsTip[2])
    /\ 2 \in DOMAIN view /\ view[2].nHeight = MEMPOOL_HEIGHT
    /\ 3 \notin DOMAIN view
    /\ mergedTx.vin[1].scriptSig = {1, 2}
    /\ errorInputs = <<1>>
    /\ vErrors[1].error = "Input not found or already spent"

\* ------------------------------------------------- the block of the proof
\* the id listed last in the request
LastTarget == uint256S(request.txids[Len(request.txids)])

\* the block the unspent coins of id h point to, if their height is between
\* 1 and the height of the tip
CoinsBlock(h) ==
    IF /\ TxOfId(h) \in DOMAIN pcoinsTip
       /\ pcoinsTip[TxOfId(h)].nHeight >= 1
       /\ pcoinsTip[TxOfId(h)].nHeight <= Len(chainActive) - 1
    THEN chainActive[pcoinsTip[TxOfId(h)].nHeight + 1]
    ELSE NullHash

\* the block the transaction index gives for a confirmed id h
IndexBlock(h) ==
    IF h \in DOMAIN txindex /\ TxOfId(h) \notin DOMAIN mempool THEN txindex[h]
    ELSE NullHash

InferredBlock ==
    IF CoinsBlock(LastTarget) # NullHash THEN CoinsBlock(LastTarget)
    ELSE IndexBlock(LastTarget)

Duplicated == Cardinality(TargetSet) # Len(request.txids)

\* C24: gettxoutproof rejects a request listing an id twice whatever else
\* the request and the chain hold; without a block reference it takes the
\* block confirming the id listed last, from the unspent coins (height
\* between 1 and the tip's) and otherwise from the transaction index, and
\* fails with an error and no proof when neither gives a block; with a
\* reference that the block index does not hold it fails with the
\* block-not-found error.
C24_TargetSetAndInferredBlock ==
    (rpc = "gettxoutproof" /\ pc \in {"proof", "done"}) =>
        /\ Duplicated =>
              /\ result = JSONRPCError("Invalid parameter, duplicated txid")
              /\ proof = NoProof
        /\ (~Duplicated /\ request.block # NoBlockParam
                /\ uint256S(request.block) \notin DOMAIN mapBlockIndex) =>
              /\ result = JSONRPCError("Block not found")
              /\ proof = NoProof
        /\ (~Duplicated /\ request.block = NoBlockParam /\ request.txids # <<>>) =>
              IF InferredBlock = NullHash
              THEN /\ result = JSONRPCError("Transaction not yet in block")
                   /\ proof = NoProof
              ELSE /\ IsError(result) => (result = JSONRPCError(NotAllFound) /\ proof = NoProof)
                   /\ ~IsError(result) =>
                         /\ proof # NoProof
                         /\ proof.header = blockFiles[InferredBlock].header
                         /\ \A h \in TargetSet :
                               \E k \in DOMAIN blockFiles[InferredBlock].vtx :
                                   Txid(blockFiles[InferredBlock].vtx[k]) = h

\* ids 1 and 2 with 2 listed last: 2 has no unspent coins, the transaction
\* index gives its block
C24_Witness ==
    /\ rpc = "gettxoutproof" /\ pc = "proof"
    /\ request.block = NoBlockParam
    /\ request.txids = <<GetHex(Txid(1)), GetHex(Txid(2))>>
    /\ CoinsBlock(Txid(2)) = NullHash
    /\ IndexBlock(Txid(2)) = chainActive[2]
    /\ proof.header = blockFiles[chainActive[2]].header

\* ===================================================== the one-step handlers
\* decoderawcertificate, createrawcertificate, sendrawtransaction and
\* sendrawcertificate take cs_main, do their work and return.

MaxOut == 2         \* largest number of outputs of a decoded certificate

\* ----------------------------------------------------------- CertToJSON
\* Locking scripts of certificate outputs are byte strings here.
OP_DUP == 118
OP_HASH160 == 169
OP_EQUALVERIFY == 136
OP_CHECKSIG == 172
Uint160Size == 20

\* a pay-to-pubkey-hash script: OP_DUP OP_HASH160 <20 bytes> OP_EQUALVERIFY
\* OP_CHECKSIG
SampleHash == [k \in 1..Uint160Size |-> k]
P2PKH == <<OP_DUP, OP_HASH160, Uint160Size>> \o SampleHash \o <<OP_EQUALVERIFY, OP_CHECKSIG>>

\* the byte strings an output handed to CertToJSON may carry: the script
\* whole, without its two closing opcodes, cut one and two bytes into the
\* hash, empty, and a script without the marker byte
OutputScripts ==
    {SubSeq(P2PKH, 1, n) : n \in {0, 21, 22, 23, Len(P2PKH)}}
    \cup {<<33, 7, OP_CHECKSIG>>}

CertOut(script, fBwt) == [scriptPubKey |-> script, isBackwardTransfer |-> fBwt]

\* The outputs of the certificate DecodeHexCert hands over, with the answer
\* of IsBackwardTransfer for each.  Neither function is in this file; the
\* specification has the decode meet a marker followed by "truncated/
\* malformed trailing bytes", and 215-218 answer a tagged output whose
\* script has no marker at all, so every script is paired with every tag.
CertOuts == {CertOut(s, b) : s \in OutputScripts, b \in BOOLEAN}

\* std::find(begin, end, value): the position of the first byte equal to
\* value, Len + 1 (end) if there is none
RECURSIVE Find(_, _, _)
Find(bytes, from, value) ==
    IF from > Len(bytes) THEN Len(bytes) + 1
    ELSE IF bytes[from] = value THEN from
    ELSE Find(bytes, from + 1, value)

Reverse(bytes) == [k \in 1..Len(bytes) |-> bytes[Len(bytes) + 1 - k]]

HexStr(bytes) == [hex |-> bytes]
DecodeErrorStr == [text |-> "<<Decode error>>"]

\* what a read past the end of the script's storage may find: any byte
StrayBytes == 0..255
Crashed == [crashed |-> TRUE]

\* 207-211: the number of bytes the range [it + 2, it + 2 + 20) takes from
\* beyond the end of the script of a tagged output, 0 when the marker is
\* absent or the range lies inside the script
PastEnd(txout) ==
    LET s  == txout.scriptPubKey
        it == Find(s, 1, OP_HASH160)
    IN  IF txout.isBackwardTransfer /\ it <= Len(s) /\ it + 1 + Uint160Size > Len(s)
        THEN it + 1 + Uint160Size - Len(s)
        ELSE 0

\* 211: std::vector<unsigned char> pkh(it, it + sizeof(uint160)): the bytes
\* at positions from .. from + 19, as the set of what the read can deliver.
\* Positions inside the script give the script's bytes; stray[j] is what
\* lies j bytes past the end of the script, each position with a byte of
\* its own.
ReadHash(bytes, from) ==
    LET last  == from + Uint160Size - 1
        nPast == IF last > Len(bytes) THEN last - Len(bytes) ELSE 0
    IN  {[k \in 1..Uint160Size |->
            IF from + k - 1 <= Len(bytes)
            THEN bytes[from + k - 1]
            ELSE stray[from + k - 1 - Len(bytes)]] :
         stray \in [1..nPast -> StrayBytes]}

\* The certificates decoderawcertificate is asked to print.  The answers to
\* a read past the end are enumerated byte by byte, so at most one output
\* of a certificate has such a read, and an output that reads more than one
\* byte past its end is the certificate's only output.
Certificates ==
    {[vout |-> v, epochNumber |-> 0, quality |-> 0] :
        v \in {w \in UNION {[1..n -> CertOuts] : n \in 0..MaxOut} :
                  \A k \in DOMAIN w :
                      PastEnd(w[k]) > 0 =>
                          /\ \A j \in DOMAIN w \ {k} : PastEnd(w[j]) = 0
                          /\ PastEnd(w[k]) > 1 => Len(w) = 1}}

\* 196-221: the JSON object of output n, as the set of the outcomes the
\* build can produce.  The range read at 211 is not checked against the end
\* of the script: when it goes past it the behaviour is undefined (the
\* hash is completed with whatever bytes lie there, or the process is
\* stopped).
OutToJSON(txout, n) ==
    LET s    == txout.scriptPubKey
        it   == Find(s, 1, OP_HASH160)
        base == [n |-> n, scriptPubKey |-> HexStr(s)]
        bwt(pkhStr) == [n |-> n, scriptPubKey |-> HexStr(s),
                        backwardTransfer |-> TRUE, pubkeyhash |-> pkhStr]
    IN  IF ~txout.isBackwardTransfer THEN {base}
        ELSE IF it = Len(s) + 1 THEN {bwt(DecodeErrorStr)}
        ELSE IF PastEnd(txout) = 0
        THEN {bwt(HexStr(Reverse(pkh))) : pkh \in ReadHash(s, it + 2)}
        ELSE {bwt(HexStr(Reverse(pkh))) : pkh \in ReadHash(s, it + 2)}
             \cup {Crashed}

\* 195-222: the vout array, output by output
RECURSIVE VoutToJSON(_, _)
VoutToJSON(vout, n) ==
    IF n = 0 THEN {[crashed |-> FALSE, vout |-> <<>>]}
    ELSE {IF v.crashed \/ o = Crashed
          THEN [crashed |-> TRUE, vout |-> <<>>]
          ELSE [crashed |-> FALSE, vout |-> Append(v.vout, o)] :
             v \in VoutToJSON(vout, n - 1), o \in OutToJSON(vout[n], n - 1)}

\* 177-250: the results CertToJSON may leave in entry
CertToJSON(cert) ==
    {IF v.crashed THEN Crashed
     ELSE [cert |-> [epochNumber |-> cert.epochNumber, quality |-> cert.quality],
           vout |-> v.vout] :
        v \in VoutToJSON(cert.vout, Len(cert.vout))}

\* 999-1010
decoderawcertificate ==
    /\ pc = "idle"
    /\ rpc' = "decoderawcertificate"
    /\ \E cert \in Certificates, fDecoded \in BOOLEAN :
        /\ request' = [cert |-> cert, fDecoded |-> fDecoded]
        /\ IF ~fDecoded
           THEN result' = JSONRPCError("TX decode failed")
           ELSE result' \in CertToJSON(cert)
    /\ pc' = "done"
    /\ UNCHANGED <<pcoinsTip, mempool, signVars, chainVars, proof, lockVars>>
    /\ UNCHANGED relayed

\* ------------------------------------------------- createrawcertificate
\* the inputs parameter: objects with a txid and a vout
VoutParams == {-1, 0, 1}
InputParams ==
    UNION {[1..n -> {[txid |-> 1, vout |-> v] : v \in VoutParams}] : n \in 0..MaxIn}

\* the certificate data parameter: a key is given with a number, or not given
NumParam(v) == [given |-> TRUE, value |-> v]
NotGiven == [given |-> FALSE, value |-> 0]
EpochParams == {NotGiven} \cup {NumParam(v) : v \in {-1, 0, 1}}
QualityParams == {NotGiven} \cup {NumParam(v) : v \in {-1, 0, 1}}

\* 569-588: the inputs are appended in order; a negative vout ends the call
RECURSIVE AddInputsToRawObject(_, _, _)
AddInputsToRawObject(rawTxObj, inputs, idx) ==
    IF idx > Len(inputs) THEN [err |-> "", obj |-> rawTxObj]
    ELSE IF inputs[idx].vout < 0
    THEN [err |-> "Invalid parameter, vout must be positive", obj |-> rawTxObj]
    ELSE AddInputsToRawObject(
             [rawTxObj EXCEPT !.vin = Append(@, TxIn(inputs[idx].txid, inputs[idx].vout,
                                                     EmptyScript))],
             inputs, idx + 1)

\* EncodeHexCert
EncodeHexCert(cert) ==
    [vin |-> [k \in DOMAIN cert.vin |-> <<cert.vin[k].prevout.hash, cert.vin[k].prevout.n>>],
     epochNumber |-> cert.epochNumber,
     quality |-> cert.quality]

\* 852-986 (scid, endEpochBlockHash and scProof are given and valid, there are
\* no outputs)
createrawcertificate ==
    /\ pc = "idle"
    /\ rpc' = "createrawcertificate"
    /\ \E inputs \in InputParams, withdrawalEpochNumber \in EpochParams,
          quality \in QualityParams :
        LET r == AddInputsToRawObject([vin |-> <<>>, epochNumber |-> 0, quality |-> 0],
                                      inputs, 1)
        IN  /\ request' = [inputs |-> inputs,
                           withdrawalEpochNumber |-> withdrawalEpochNumber,
                           quality |-> quality]
            /\ result' =
                  IF r.err # "" THEN JSONRPCError(r.err)
                  ELSE IF ~withdrawalEpochNumber.given
                  THEN JSONRPCError("Missing mandatory parameter in input: \"withdrawalEpochNumber\"")
                  ELSE IF ~quality.given
                  THEN JSONRPCError("Missing mandatory parameter in input: \"quality\"")
                  ELSE IF quality.value < 0
                  THEN JSONRPCError("Invalid parameter \"quality\": must be a positive number")
                  ELSE [hex |-> EncodeHexCert([r.obj EXCEPT
                                                  !.epochNumber = withdrawalEpochNumber.value,
                                                  !.quality = quality.value])]
    /\ pc' = "done"
    /\ UNCHANGED <<pcoinsTip, mempool, signVars, chainVars, proof, lockVars>>
    /\ UNCHANGED relayed

\* ------------------------------------- sendrawtransaction, sendrawcertificate
\* the ids of the entities a caller may send: 1 is in the chain state, 2 is
\* pending, 3 is new to the node, 4 is pending and has a pruned entry left in
\* the chain state
SendIds == {1, 2, 3, 4}

\* AcceptTxToMemoryPool / AcceptCertificateToMemoryPool: the entity is
\* accepted, found invalid, found to spend unknown outputs, or refused
AcceptOutcomes == {"accepted", "invalid", "missing inputs", "refused"}

\* 1487-1524.  request.submitted records whether the entity was handed to
\* the mempool.
sendrawtransaction ==
    /\ pc = "idle"
    /\ rpc' = "sendrawtransaction"
    /\ \E hash \in SendIds, fDecoded \in BOOLEAN, accept \in AcceptOutcomes :
        LET fHaveMempool == hash \in DOMAIN mempool
            fHaveChain   == hash \in DOMAIN pcoinsTip /\ pcoinsTip[hash].nHeight < 1000000000
            fSubmit      == fDecoded /\ ~fHaveMempool /\ ~fHaveChain
        IN  /\ request' = [id |-> hash, fDecoded |-> fDecoded, submitted |-> fSubmit]
            /\ IF ~fDecoded
               THEN /\ result' = JSONRPCError("TX decode failed")
                    /\ UNCHANGED <<mempool, relayed>>
               ELSE IF ~fHaveMempool /\ ~fHaveChain
               THEN IF accept = "accepted"
                    THEN /\ mempool' = [t \in DOMAIN mempool \cup {hash} |->
                                           IF t = hash THEN <<{1}>> ELSE mempool[t]]
                         /\ result' = [txid |-> hash]
                         /\ relayed' = Append(relayed, hash)
                    ELSE /\ result' = JSONRPCError(
                                IF accept = "invalid" THEN "16: bad-txns"
                                ELSE IF accept = "missing inputs" THEN "Missing inputs"
                                ELSE "rejected")
                         /\ UNCHANGED <<mempool, relayed>>
               ELSE IF fHaveChain
               THEN /\ result' = JSONRPCError("transaction already in block chain")
                    /\ UNCHANGED <<mempool, relayed>>
               ELSE /\ result' = [txid |-> hash]
                    /\ relayed' = Append(relayed, hash)
                    /\ UNCHANGED mempool
    /\ pc' = "done"
    /\ UNCHANGED <<pcoinsTip, signVars, chainVars, proof, lockVars>>

\* 1543-1599
sendrawcertificate_mempoolFirst ==
    /\ pc = "idle"
    /\ rpc' = "sendrawcertificate"
    /\ \E hash \in SendIds, fDecoded \in BOOLEAN, accept \in AcceptOutcomes :
        LET fHaveMempool == hash \in DOMAIN mempool
            fHaveChain   == hash \in DOMAIN pcoinsTip
            fSubmit      == fDecoded /\ ~fHaveMempool /\ ~fHaveChain
        IN  /\ request' = [id |-> hash, fDecoded |-> fDecoded, submitted |-> fSubmit]
            /\ IF ~fDecoded
               THEN /\ result' = JSONRPCError("Certificate decode failed")
                    /\ UNCHANGED <<mempool, relayed>>
               ELSE IF ~fHaveMempool /\ ~fHaveChain
               THEN IF accept = "accepted"
                    THEN /\ mempool' = [t \in DOMAIN mempool \cup {hash} |->
                                           IF t = hash THEN <<{1}>> ELSE mempool[t]]
                         /\ result' = [txid |-> hash]
                         /\ relayed' = Append(relayed, hash)
                    ELSE /\ result' = JSONRPCError(
                                IF accept = "invalid" THEN "16: bad-txns"
                                ELSE IF accept = "missing inputs" THEN "Missing inputs"
                                ELSE "certificate not accepted to mempool")
                         /\ UNCHANGED <<mempool, relayed>>
               ELSE IF fHaveMempool
               THEN /\ result' = [txid |-> hash]
                    /\ relayed' = Append(relayed, hash)
                    /\ UNCHANGED mempool
               ELSE /\ result' = JSONRPCError("certificate already in block chain")
                    /\ UNCHANGED <<mempool, relayed>>
    /\ pc' = "done"
    /\ UNCHANGED <<pcoinsTip, signVars, chainVars, proof, lockVars>>

sendrawcertificate ==
    /\ pc = "idle"
    /\ rpc' = "sendrawcertificate"
    /\ \E hash \in SendIds, fDecoded \in BOOLEAN, accept \in AcceptOutcomes :
        LET fHaveMempool == hash \in DOMAIN mempool
            fHaveChain   == hash \in DOMAIN pcoinsTip
            fSubmit      == fDecoded /\ ~fHaveMempool /\ ~fHaveChain
        IN  /\ request' = [id |-> hash, fDecoded |-> fDecoded, submitted |-> fSubmit]
            /\ IF ~fDecoded
               THEN /\ result' = JSONRPCError("Certificate decode failed")
                    /\ UNCHANGED <<mempool, relayed>>
               ELSE IF ~fHaveMempool /\ ~fHaveChain
               THEN IF accept = "accepted"
                    THEN /\ mempool' = [t \in DOMAIN mempool \cup {hash} |->
                                           IF t = hash THEN <<{1}>> ELSE mempool[t]]
                         /\ result' = [txid |-> hash]
                         /\ relayed' = Append(relayed, hash)
                    ELSE /\ result' = JSONRPCError(
                                IF accept = "invalid" THEN "16: bad-txns"
                                ELSE IF accept = "missing inputs" THEN "Missing inputs"
                                ELSE "certificate not accepted to mempool")
                         /\ UNCHANGED <<mempool, relayed>>
               ELSE IF fHaveChain
               THEN /\ result' = JSONRPCError("certificate already in block chain")
                    /\ UNCHANGED <<mempool, relayed>>
               ELSE /\ result' = [txid |-> hash]
                    /\ relayed' = Append(relayed, hash)
                    /\ UNCHANGED mempool
    /\ pc' = "done"
    /\ UNCHANGED <<pcoinsTip, signVars, chainVars, proof, lockVars>>

RpcInit ==
    /\ pcoinsTip = [t \in {1, 4} |->
                       IF t = 1 THEN [vout |-> <<TxOut(1, {1}), NullTxOut>>, nHeight |-> 1]
                       ELSE [vout |-> <<NullTxOut>>, nHeight |-> 1]]
    /\ mempool = [t \in {2, 4} |-> IF t = 2 THEN <<{1, 2}>> ELSE <<{1}>>]
    /\ pc = "idle"
    /\ txVariants = <<>>
    /\ mergedTx = [vin |-> <<>>, vout |-> <<>>]
    /\ view = <<>>
    /\ tempKeystore = {}
    /\ nHashType = 1
    /\ i = 0
    /\ vErrors = <<>>
    /\ result = [pending |-> TRUE]
    /\ rpc = "none"
    /\ calls = [sign |-> 0, combine |-> 0, verify |-> 0, combined |-> <<>>]
    /\ visited = <<>>
    /\ errorInputs = <<>>
    /\ mapBlockIndex = <<>>
    /\ chainActive = <<>>
    /\ blockFiles = <<>>
    /\ txindex = <<>>
    /\ proof = NoProof
    /\ request = NoRequest
    /\ cs_main = "free"
    /\ mempool_cs = "free"
    /\ relayed = <<>>

RpcNext ==
    \/ decoderawcertificate
    \/ createrawcertificate
    \/ sendrawtransaction
    \/ sendrawcertificate

RpcSpec == RpcInit /\ [][RpcNext]_vars

\* ------------------------------------------------------ backward transfers
Decoded == pc = "done" /\ rpc = "decoderawcertificate" /\ request.fDecoded

\* the 20 bytes after the marker and the push byte, if the script has them
HashAfterMarker(s) ==
    LET it == Find(s, 1, OP_HASH160)
    IN  IF it <= Len(s) /\ it + 1 + Uint160Size <= Len(s)
        THEN SubSeq(s, it + 2, it + 1 + Uint160Size)
        ELSE <<>>

\* C25: CertToJSON never stops the process and never reports bytes that are
\* not the script's: for every output tagged as a backward transfer it
\* reports the 20 bytes after the marker and the push byte, reversed, or,
\* when the marker is absent or fewer than the push byte and 20 bytes
\* follow it, the string "<<Decode error>>"; every output of the
\* certificate is decoded.
C25_BackwardTransferDecodeNeverFails ==
    Decoded =>
        /\ result # Crashed
        /\ Len(result.vout) = Len(request.cert.vout)
        /\ \A k \in DOMAIN request.cert.vout :
              LET txout == request.cert.vout[k]
                  hash  == HashAfterMarker(txout.scriptPubKey)
              IN  /\ result.vout[k].scriptPubKey = HexStr(txout.scriptPubKey)
                  /\ txout.isBackwardTransfer =>
                        result.vout[k].pubkeyhash =
                            IF hash # <<>> THEN HexStr(Reverse(hash)) ELSE DecodeErrorStr

\* some tagged output of the decoded certificate has the marker with fewer
\* than the push byte and 20 bytes after it
TruncatedAfterMarker ==
    \E k \in DOMAIN request.cert.vout : PastEnd(request.cert.vout[k]) > 0

\* where no tagged output is cut short after the marker the decode is as
\* C25 has it: the hash reversed, or the decode-error string when the
\* marker is absent
UntruncatedDecoded ==
    (Decoded /\ ~TruncatedAfterMarker) => C25_BackwardTransferDecodeNeverFails

\* a decode that read two bytes past the end of a script and reported them,
\* the two differing
TwoStrayBytesReported ==
    /\ Decoded /\ TruncatedAfterMarker /\ result # Crashed
    /\ PastEnd(request.cert.vout[1]) = 2
    /\ result.vout[1].pubkeyhash.hex[1] = 7
    /\ result.vout[1].pubkeyhash.hex[2] = 200

\* a decode stopped by the read past the end
DecodeStopped == Decoded /\ result = Crashed

\* ------------------------------------------------- created certificates
Created == pc = "done" /\ rpc = "createrawcertificate"

NegativeGiven(v) == v.given /\ v.value < 0

\* C26: every certificate createrawcertificate returns has a non-negative
\* epoch number, a non-negative quality and non-negative output indexes in
\* its inputs; a request with a negative withdrawalEpochNumber, a negative
\* quality or a negative vout ends with an invalid-parameter error and no
\* certificate.
C26_CreatedCertificateNonNegative ==
    Created =>
        /\ IsResult(result) =>
              /\ result.hex.epochNumber >= 0
              /\ result.hex.quality >= 0
              /\ \A k \in DOMAIN result.hex.vin : result.hex.vin[k][2] >= 0
        /\ (\/ NegativeGiven(request.withdrawalEpochNumber)
            \/ NegativeGiven(request.quality)
            \/ \E k \in DOMAIN request.inputs : request.inputs[k].vout < 0)
           => (IsError(result) /\ ~IsResult(result))

\* what holds: quality and the output indexes are checked
QualityAndVoutChecked ==
    Created =>
        /\ IsResult(result) =>
              /\ result.hex.quality >= 0
              /\ \A k \in DOMAIN result.hex.vin : result.hex.vin[k][2] >= 0
        /\ (\/ NegativeGiven(request.quality)
            \/ \E k \in DOMAIN request.inputs : request.inputs[k].vout < 0)
           => (IsError(result) /\ ~IsResult(result))

\* ------------------------------------------------------------- relaying
SendRpcs == {"sendrawtransaction", "sendrawcertificate"}

AlreadyInChain ==
    {JSONRPCError("transaction already in block chain"),
     JSONRPCError("certificate already in block chain")}

\* one call of sendrawtransaction or sendrawcertificate for a decoded entity
SendStep ==
    LET id      == request'.id
        inPool  == id \in DOMAIN mempool
        inChain == id \in DOMAIN pcoinsTip
    IN  /\ pcoinsTip' = pcoinsTip
        /\ relayed' # relayed =>
              (relayed' = Append(relayed, id) /\ id \in DOMAIN mempool')
        /\ (~inPool /\ ~inChain) =>
              /\ request'.submitted
              /\ \/ /\ id \in DOMAIN mempool'
                    /\ relayed' = Append(relayed, id)
                    /\ result' = [txid |-> id]
                 \/ /\ IsError(result')
                    /\ mempool' = mempool /\ relayed' = relayed
        /\ inChain =>
              /\ result' \in AlreadyInChain
              /\ ~request'.submitted
              /\ mempool' = mempool /\ relayed' = relayed
        /\ (inPool /\ ~inChain) =>
              /\ ~request'.submitted
              /\ mempool' = mempool
              /\ relayed' = Append(relayed, id)
              /\ result' = [txid |-> id]

\* C29: sendrawtransaction and sendrawcertificate relay an entity only when
\* it is in the mempool at that point: an entity neither in the mempool nor
\* in the chain is submitted and relayed only if accepted (a rejection is an
\* error and nothing is relayed); an entity in the chain ends the call with
\* the already-in-block-chain error and nothing relayed, also when it is in
\* the mempool too; an entity in the mempool and not in the chain is relayed
\* without being submitted again.
C29_RelayOnlyFromMempool ==
    [][(rpc' \in SendRpcs /\ pc = "idle" /\ request'.fDecoded) => SendStep]_vars

\* the certificate 4, pending and with an entry in the chain state, was
\* refused and not relayed
C29_Witness ==
    /\ pc = "done" /\ rpc = "sendrawcertificate"
    /\ request.fDecoded /\ request.id = 4
    /\ 4 \in DOMAIN mempool /\ 4 \in DOMAIN pcoinsTip
    /\ result = JSONRPCError("certificate already in block chain")
    /\ relayed = <<>>

\* --------------------------------------------- caller-supplied previous outputs
\* item k of the list names the outpoint of item j
SameOutpoint(prevTxs, j, k) ==
    prevTxs[j].txid = prevTxs[k].txid /\ prevTxs[j].vout = prevTxs[k].vout

\* the items before k that name k's outpoint
Earlier(prevTxs, k) == {j \in 1..(k - 1) : SameOutpoint(prevTxs, j, k)}

\* the locking scripts the coins c and the items before k give for k's
\* outpoint: the one supplied last, else the one of an available output of c
ScriptsBefore(c, prevTxs, k) ==
    IF Earlier(prevTxs, k) # {}
    THEN {prevTxs[CHOOSE j \in Earlier(prevTxs, k) :
                     \A l \in Earlier(prevTxs, k) : l <= j].scriptPubKey}
    ELSE IF AvailableIn(c, prevTxs[k].txid, prevTxs[k].vout)
    THEN {c[prevTxs[k].txid].vout[prevTxs[k].vout + 1].scriptPubKey}
    ELSE {}

Mismatch(c, prevTxs, k) ==
    \E s \in ScriptsBefore(c, prevTxs, k) : s # prevTxs[k].scriptPubKey

\* the items of the list that name output n of transaction h
Supplying(prevTxs, h, n) ==
    {k \in DOMAIN prevTxs : prevTxs[k].txid = h /\ prevTxs[k].vout = n}

\* the previous outputs of the call are read: the keys were valid and no
\* output index was negative
PrevTxsRead ==
    /\ pc = "tx_params"
    /\ 0 \notin request'.keys
    /\ \A k \in DOMAIN request'.prevtxs : request'.prevtxs[k].vout >= 0

PrevTxsApplied ==
    LET prevTxs == request'.prevtxs
    IN  IF \E k \in DOMAIN prevTxs : Mismatch(view, prevTxs, k)
        THEN /\ result' = JSONRPCError("Previous output scriptPubKey mismatch")
             /\ pc' = "done"
        ELSE /\ result' # JSONRPCError("Previous output scriptPubKey mismatch")
             /\ \A k \in DOMAIN prevTxs :
                   /\ AvailableIn(view', prevTxs[k].txid, prevTxs[k].vout)
                   /\ view'[prevTxs[k].txid].vout[prevTxs[k].vout + 1]
                         = TxOut(0, prevTxs[k].scriptPubKey)
             /\ \A h \in DOMAIN view \cup DOMAIN view' :
                   \A n \in 0..MaxIn :
                       Supplying(prevTxs, h, n) = {} =>
                          /\ AvailableIn(view', h, n) <=> AvailableIn(view, h, n)
                          /\ AvailableIn(view, h, n) =>
                                view'[h].vout[n + 1] = view[h].vout[n + 1]

\* an input that spends a supplied output is not reported as not found
SuppliedResolves ==
    (/\ pc = "tx_loop" /\ i < Len(mergedTx.vin) /\ i' = i + 1
     /\ Supplying(request.prevtxs, mergedTx.vin[i + 1].prevout.hash,
                  mergedTx.vin[i + 1].prevout.n) # {})
    => /\ calls'.verify = calls.verify + 1
       /\ Len(vErrors') > Len(vErrors) =>
             vErrors'[Len(vErrors')].error # "Input not found or already spent"

\* C28: the previous outputs the caller supplies are applied in list order to
\* the local coins: if the coins already hold an available output at (txid,
\* vout), from the fetch or from an earlier item, with another locking
\* script, the call ends with the scriptPubKey-mismatch error; otherwise the
\* output becomes available with the supplied script and value 0, the other
\* outputs keep their availability, and an input spending the supplied
\* output is resolved by the per-input loop though neither the chain state
\* nor the mempool knows it.
C28_PrevTxsAppliedInOrder ==
    [][(PrevTxsRead => PrevTxsApplied) /\ SuppliedResolves]_vars

\* output 0 of transaction 3 is known to the caller only; the input spending
\* it is signed and verified
C28_Witness ==
    /\ Returned /\ rpc = "signrawtransaction"
    /\ "prevtxs" \in DOMAIN request
    /\ request.prevtxs = <<PrevTx(3, 0, {1})>>
    /\ Len(mergedTx.vin) = 2
    /\ mergedTx.vin[1].prevout = [hash |-> 3, n |-> 0]
    /\ mergedTx.vin[2].prevout = [hash |-> 1, n |-> 0]
    /\ 3 \notin DOMAIN pcoinsTip /\ 3 \notin DOMAIN mempool
    /\ view[3].vout[1] = TxOut(0, {1})
    /\ view[1].vout[1] = TxOut(1, {1})
    /\ tempKeystore = {1}
    /\ mergedTx.vin[1].scriptSig = {1}
    /\ result.complete

\* the second item of the list contradicts the first one
MismatchWithEarlierItem ==
    /\ pc = "done" /\ rpc = "signrawtransaction"
    /\ "prevtxs" \in DOMAIN request
    /\ Len(request.prevtxs) = 2
    /\ Mismatch(<<>>, request.prevtxs, 2)
    /\ result = JSONRPCError("Previous output scriptPubKey mismatch")

\* ------------------------------------------------ variants of unequal length
\* Requests whose further variants carry a prefix of the inputs of the base:
\* each variant decodes on its own (1291-1303), nothing compares the shapes.
RaggedPrevOuts == UNION {[1..n -> {<<1, 0>>, <<3, 0>>}] : n \in 1..MaxIn}

RaggedVariantLists ==
    UNION {UNION {{<<Entity(pouts, b)>> \o
                      [k \in 1..m |-> Entity(SubSeq(pouts, 1, ns[k]), ks[k])] :
                        b \in {{}, {1}},
                        ks \in [1..m -> VariantSigners],
                        ns \in [1..m -> 0..Len(pouts)]} :
                  pouts \in RaggedPrevOuts} :
           m \in 1..(MaxVariants - 1)}

\* 1282-1314 for such a request
signrawtransaction_decode_ragged ==
    /\ pc = "idle"
    /\ cs_main = "free"
    /\ rpc' = "signrawtransaction"
    /\ \E variants \in RaggedVariantLists, fDecoded \in BOOLEAN :
        IF ~fDecoded
        THEN /\ Throw("TX decode failed")
             /\ UNCHANGED <<txVariants, mergedTx, lockVars>>
        ELSE IF variants = <<>>
        THEN /\ Throw("Missing transaction")
             /\ UNCHANGED <<txVariants, mergedTx, lockVars>>
        ELSE /\ txVariants' = variants
             /\ mergedTx' = variants[1]
             /\ cs_main' = "rpc"
             /\ pc' = "tx_lock"
             /\ UNCHANGED <<result, mempool_cs>>
    /\ UNCHANGED <<pcoinsTip, mempool, view, tempKeystore, nHashType, i, vErrors,
                   calls, visited, errorInputs>>
    /\ UNCHANGED <<chainVars, proofVars>>
    /\ UNCHANGED relayed

RaggedNext ==
    \/ signrawtransaction_decode_ragged
    \/ signrawtransaction_lock
    \/ signrawtransaction_fetch
    \/ signrawtransaction_params
    \/ signrawtransaction_input
    \/ signrawtransaction_return

RaggedSpec == Init /\ [][RaggedNext]_vars

\* the loop merges the variants into an input whose previous output it found
MergeStep ==
    /\ pc = "tx_loop" /\ rpc = "signrawtransaction"
    /\ i < Len(mergedTx.vin)
    /\ InputAvailable(view, mergedTx.vin[i + 1].prevout)
    /\ (i' # i \/ pc' = "crashed")

\* C27: whenever the merge step reads the script of input i of a variant,
\* that variant has more than i inputs.
C27_MergeReadsInsideVariants ==
    [][MergeStep => \A k \in DOMAIN txVariants : i < Len(txVariants[k].vin)]_vars

\* a request with a short variant went through the whole call
ShortVariantReturned ==
    /\ pc = "done" /\ rpc = "signrawtransaction" /\ IsResult(result)
    /\ \E k \in DOMAIN txVariants : Len(txVariants[k].vin) < Len(mergedTx.vin)

\* a request with a short variant ended the process
ShortVariantCrashed ==
    /\ pc = "crashed"
    /\ \E k \in DOMAIN txVariants : Len(txVariants[k].vin) <= i

\* ------------------------------------------ the chain and the proof's block
\* gettxoutproof has returned a proof and nothing has altered it
ProofBuilt == proof # NoProof /\ proof = request.proof

BlockNotInChain == JSONRPCError("Block not found in chain")

\* C30 as stated: gettxoutproof returns a proof only for a block of the
\* active chain, so verifying that proof under the same chain state never
\* fails with the block-not-in-chain error.
C30_ProofOnlyForActiveBlock ==
    /\ ProofBuilt => OnBestChain(GetBlockHash(proof.header))
    /\ VerifiedAsBuilt => result # BlockNotInChain

\* C30 (amended): gettxoutproof returns a proof only for a block that the
\* block index holds and whose data it read: the block named by the request
\* when it names one, whether or not that block is on the active chain, and a
\* block of the active chain when the block is inferred from the unspent
\* coins of the id listed last.  Verifying the proof under the same chain
\* state fails with the block-not-in-chain error exactly when the proof's
\* block is outside the active chain.
C30_ProofForIndexedBlock ==
    ProofBuilt =>
        LET h == GetBlockHash(proof.header)
        IN  /\ h \in DOMAIN mapBlockIndex
            /\ h \in DOMAIN blockFiles
            /\ proof.header = blockFiles[h].header
            /\ request.block # NoBlockParam => h = uint256S(request.block)
            /\ (/\ request.block = NoBlockParam
                /\ request.txids # <<>>
                /\ CoinsBlock(LastTarget) # NullHash) => OnBestChain(h)
            /\ VerifiedAsBuilt => (result = BlockNotInChain <=> ~OnBestChain(h))

\* the proof built for the stale block named in the request is refused
C30_Witness ==
    /\ VerifiedAsBuilt
    /\ request.block = GetHex(GetBlockHash(StaleBlock.header))
    /\ request.txids = <<GetHex(Txid(9))>>
    /\ ~OnBestChain(GetBlockHash(proof.header))
    /\ result = BlockNotInChain

\* the proof of a block inferred from the unspent coins is accepted
InferredFromCoinsVerified ==
    /\ VerifiedAsBuilt
    /\ request.block = NoBlockParam
    /\ CoinsBlock(LastTarget) # NullHash
    /\ "txids" \in DOMAIN result

\* transaction 3 entered the mempool while the handler held cs_main and had
\* not yet taken mempool.cs: the fetch captured it and the input is signed
FetchSeesEarlierUpdate ==
    /\ pc = "done" /\ rpc = "signrawtransaction" /\ IsResult(result)
    /\ Len(mergedTx.vin) = 1
    /\ mergedTx.vin[1].prevout = [hash |-> 3, n |-> 0]
    /\ "prevtxs" \in DOMAIN request /\ request.prevtxs = <<>>
    /\ 3 \in DOMAIN view /\ view[3].nHeight = MEMPOOL_HEIGHT
    /\ mergedTx.vin[1].scriptSig = {1}
    /\ result.complete

\* gettxoutproof is about to look its id up in the mempool
LookupUnderMempoolLock ==
    /\ pc = "gp_pool" /\ rpc = "gettxoutproof"
    /\ cs_main = "rpc" /\ mempool_cs = "rpc"
    /\ request.block = NoBlockParam

====
